---- MODULE Spec2Model ----
(***************************************************************************)
(* State-machine model of the mythoscape backend (src/backend/app):        *)
(*   - utils/cache.py           CacheManager (in-memory TTL cache)          *)
(*   - services/multiagent_service.py   MultiAgentService                   *)
(*   - agents/multiagent_graph.py, agents/router.py   the agent pipeline    *)
(*   - middleware/auth.py, dependencies/auth.py       the auth resolvers    *)
(*   - api/v1/endpoints/multiagent.py   the process-action handler          *)
(*                                                                         *)
(* Python values are modelled with the representation the source gives     *)
(* them: a TypedDict instance is a plain dict (attribute access on it       *)
(* raises AttributeError), a pydantic BaseModel instance is an object.      *)
(* Strings that the code only compares by prefix are sequences of tokens.   *)
(***************************************************************************)
EXTENDS Integers, Sequences, FiniteSets, TLC

VARIABLES
    now,        \* datetime.now(), in seconds since the process started
    cache,      \* CacheManager._cache : key -> [value, created_at, expires_at]
    lastCache,  \* the most recent CacheManager call and what it returned
    svcCall,    \* the most recent MultiAgentService call and what it returned
    lastRun,    \* the most recent process_user_action call that ran the graph
    pc,         \* where the process-action request being served stands
    req,        \* the request being served, with what its LLM calls will do
    gstate,     \* the AgentState the graph run is working on
    gout,       \* how the graph run ended
    stages,     \* per graph node: "pending", "returned" or "raised"
    piOut,      \* what process_user_input gave back
    svcOut,     \* what process_user_action gave back
    resp,       \* the HTTP response of the request
    call,       \* the most recent direct call of a harness, with its result
    di,         \* dependency injection: the CacheManager instances built so far
    background  \* BackgroundTasks of the request being served

cacheVars == <<now, cache, lastCache>>

serviceVars == <<svcCall, lastRun>>

pipeVars == <<pc, req, gstate, gout, stages, piOut, svcOut, resp>>

appVars == <<di, background>>

vars == <<now, cache, lastCache, svcCall, lastRun, pc, req, gstate, gout, stages,
          piOut, svcOut, resp, call, di, background>>

(***************************************************************************)
(* Bounds of the model.                                                    *)
(***************************************************************************)
MaxClock == 4      \* the cache harness stops advancing the clock here
MaxExpire == 2     \* largest expire_seconds the cache harness passes to set

(***************************************************************************)
(* Python's None, for string-valued results.                               *)
(***************************************************************************)
None == "None"

\* expires_at = None (no expiry); every real expiry instant is >= 0
NoExpiry == -1

(***************************************************************************)
(* utils/cache.py : CacheManager                                           *)
(***************************************************************************)

\* keys and values the cache harness stores
HarnessKeys == {<<"k1">>, <<"k2">>}
HarnessValues == {"v1", "v2"}

\* set(): expires_at is None unless expire_seconds is truthy
ExpiresAt(t, expire_seconds) ==
    IF expire_seconds # 0 THEN t + expire_seconds ELSE NoExpiry

\* the entry set() stores
NewEntry(t, value, expire_seconds) ==
    [value |-> value, created_at |-> t, expires_at |-> ExpiresAt(t, expire_seconds)]

\* get(): 'entry["expires_at"] and datetime.now() > entry["expires_at"]',
\* with one second added to the expiry instant (an off-by-one slip)
IsExpiredLate(entry, t) ==
    entry.expires_at # NoExpiry /\ t > entry.expires_at + 1

\* get(): 'entry["expires_at"] and datetime.now() > entry["expires_at"]'
IsExpired(entry, t) ==
    entry.expires_at # NoExpiry /\ t > entry.expires_at

\* the dict without key k ('del self._cache[key]')
DictDel(d, k) == [x \in (DOMAIN d) \ {k} |-> d[x]]

\* the dict with d[k] = v
DictPut(d, k, v) == [x \in (DOMAIN d) \cup {k} |-> IF x = k THEN v ELSE d[x]]

\* get(): the value returned for key k at time t
CacheGetResult(c, k, t) ==
    IF k \notin DOMAIN c THEN None
    ELSE IF IsExpired(c[k], t) THEN None
    ELSE c[k].value

\* get(): the cache after the call (an expired entry is deleted)
CacheAfterGet(c, k, t) ==
    IF k \in DOMAIN c /\ IsExpired(c[k], t) THEN DictDel(c, k) ELSE c

\* set(): the cache after the call
CacheAfterSet(c, k, t, value, expire_seconds) ==
    DictPut(c, k, NewEntry(t, value, expire_seconds))

\* str.startswith on token sequences
StartsWith(s, prefix) ==
    /\ Len(prefix) <= Len(s)
    /\ \A i \in 1..Len(prefix) : s[i] = prefix[i]

\* 'pattern[:-1]'
DropLast(s) == SubSeq(s, 1, Len(s) - 1)

\* delete_pattern(): the keys it deletes; only a trailing "*" is a wildcard
KeysToDelete(c, pattern) ==
    IF Len(pattern) > 0 /\ pattern[Len(pattern)] = "*"
    THEN {k \in DOMAIN c : StartsWith(k, DropLast(pattern))}
    ELSE {k \in DOMAIN c : k = pattern}

\* delete_pattern(): the cache after the call
CacheAfterDeletePattern(c, pattern) ==
    [x \in (DOMAIN c) \ KeysToDelete(c, pattern) |-> c[x]]

\* _cleanup_expired() evicting every entry that has an expiry, passed or not
CacheAfterCleanupEager(c, t) ==
    [x \in {k \in DOMAIN c : c[k].expires_at = NoExpiry} |-> c[x]]

\* _cleanup_expired(): one pass of the periodic sweep
CacheAfterCleanup(c, t) ==
    [x \in {k \in DOMAIN c : ~IsExpired(c[k], t)} |-> c[x]]

(***************************************************************************)
(* Python values.                                                          *)
(***************************************************************************)

\* agents/graph_state.py: AgentState, SpecialistOutput and VectorStoreUpdate
\* are TypedDict classes, so AgentState(...) and SpecialistOutput(...) build
\* plain dicts ("dict"); a class with attributes would build an "object"
StateKind == "dict"

OutputKind == "dict"

\* obj.name, obj.name = v and obj.method(): only objects have attributes
AttrOK(obj) == obj.kind = "object"

\* what a call gives back: a value, or an exception
Returned(v) == [raised |-> FALSE, exc |-> "", value |-> v]

Raised(e) == [raised |-> TRUE, exc |-> e, value |-> << >>]

(***************************************************************************)
(* agents/routing_tools.py, agents/router.py : RouterAgent                 *)
(***************************************************************************)

ROUTING_TOOLS ==
    <<"WorldExpertTool", "CharacterExpertTool", "MissionExpertTool",
      "RulesExpertTool", "TimeExpertTool", "ItemsExpertTool",
      "PlotExpertTool", "SocialExpertTool">>

ToolClasses == {ROUTING_TOOLS[i] : i \in DOMAIN ROUTING_TOOLS}

\* agent_tool.__class__.__name__.replace("ExpertTool", "").lower()
AgentNameOf(cls) ==
    CASE cls = "WorldExpertTool" -> "world"
      [] cls = "CharacterExpertTool" -> "character"
      [] cls = "MissionExpertTool" -> "mission"
      [] cls = "RulesExpertTool" -> "rules"
      [] cls = "TimeExpertTool" -> "time"
      [] cls = "ItemsExpertTool" -> "items"
      [] cls = "PlotExpertTool" -> "plot"
      [] cls = "SocialExpertTool" -> "social"
      [] cls = "dict" -> "dict"
      [] OTHER -> "nonetype"

\* a tool instance the structured-output LLM returns; anything else it may
\* return (a raw dict, None) has no attribute 'instructions'
ToolInstance(cls, instructions) ==
    [cls |-> cls, has_instructions |-> cls \in ToolClasses, instructions |-> instructions]

\* the fallback route_request returns when the try block raises
RouteFallback ==
    <<[agent |-> "world",
       instructions |-> "Processar entrada do usuário com contexto do mundo",
       tool_class |-> "WorldExpertTool"]>>

\* one element of routed_agents
RoutedEntry(tool) ==
    [agent |-> AgentNameOf(tool.cls),
     instructions |-> tool.instructions,
     tool_class |-> tool.cls]

\* the body of route_request's try block, given what the LLM call does:
\* llm.kind is "raise" (ainvoke raises), "one" (a single tool instance) or
\* "list" (a list of instances); llm.tools holds the instances
RouteTry(llm) ==
    IF llm.kind = "raise" THEN Raised("Exception")
    ELSE IF \E i \in DOMAIN llm.tools : ~llm.tools[i].has_instructions
         THEN Raised("AttributeError")      \* agent_tool.instructions
         ELSE Returned([i \in DOMAIN llm.tools |-> RoutedEntry(llm.tools[i])])

\* route_request without its try/except: the failure reaches the caller
RouteRequestUnguarded(llm) == RouteTry(llm)

\* route_request(user_input, world_context)
RouteRequest(llm) ==
    IF RouteTry(llm).raised THEN Returned(RouteFallback) ELSE RouteTry(llm)

\* get_available_agents()
AvailableAgents == {AgentNameOf(c) : c \in ToolClasses}

(***************************************************************************)
(* agents/multiagent_graph.py : MultiAgentGraph                            *)
(***************************************************************************)

\* self.specialists: the registry of specialist agents
Specialists ==
    {"world", "character", "mission", "rules", "time", "items", "plot", "social"}

\* an element of selected_agents: a routed dict (from route_request) or a
\* bare agent name (from the router node's own fallback)
DictEntry(e) ==
    [is_dict |-> TRUE, agent |-> e.agent, instructions |-> e.instructions,
     tool_class |-> e.tool_class]

NameEntry(name) ==
    [is_dict |-> FALSE, agent |-> name, instructions |-> "", tool_class |-> ""]

\* SpecialistOutput(agent_type=..., content=..., ...)
SpecialistOutput(agent_type, content, content_type, success, error_message, updates) ==
    [kind |-> OutputKind, agent_type |-> agent_type, content |-> content,
     content_type |-> content_type, success |-> success,
     error_message |-> error_message, updates |-> updates]

\* AgentState(user_input=..., world_context=..., ...)
AgentState(user_input, world_context, final_narrative, meta) ==
    [kind |-> StateKind, user_input |-> user_input, world_context |-> world_context,
     selected_agents |-> << >>, specialist_outputs |-> << >>,
     final_narrative |-> final_narrative, vector_store_updates |-> << >>,
     meta |-> meta]

\* parameters process_request declares after self (base_agent.py) and the
\* positional arguments _execute_specialist passes
ProcessRequestParams == 3

ProcessRequestArgs == 2

\* what a specialist returns for a request it handles
SpecialistReply(name, env) ==
    SpecialistOutput(name, <<"content_of", name>>, "response", TRUE, None,
                     IF name \in env.updating THEN <<name>> ELSE << >>)

\* await specialist.process_request(user_input, world_context)
CallSpecialist(name, env) ==
    IF ProcessRequestArgs # ProcessRequestParams THEN Raised("TypeError")
    ELSE IF name \in env.failing THEN Raised("Exception")
    ELSE Returned(SpecialistReply(name, env))

\* _execute_specialist: every exception becomes an error output
ExecuteSpecialist(name, env) ==
    LET r == CallSpecialist(name, env)
    IN  IF r.raised
        THEN SpecialistOutput(name, << >>, "error", FALSE, r.exc, << >>)
        ELSE r.value

\* the generic error output of _specialists_node's except branch
SystemErrorOutput(exc) ==
    SpecialistOutput("system", <<"Erro interno no processamento dos agentes especialistas.">>,
                     "error", FALSE, exc, << >>)

RECURSIVE Flatten(_)
\* vector_store_updates.extend(...) over the results, in order
Flatten(seqs) ==
    IF seqs = << >> THEN << >> ELSE Head(seqs) \o Flatten(Tail(seqs))

\* the names _specialists_node creates tasks for, in order
TaskNames(selected) ==
    LET names == [i \in DOMAIN selected |-> selected[i].agent]
    IN  SelectSeq(names, LAMBDA n : n \in Specialists)

\* _router_node(state)
RouterNode(state, env) ==
    IF ~AttrOK(state)
    THEN Raised("AttributeError")   \* state.user_input, then state.execution_metadata
    ELSE LET routed == RouteRequest(env.llm)
         IN  IF routed.raised
             THEN Returned([selected_agents |-> <<NameEntry("world")>>,
                            meta |-> state.meta \cup {"router_error"}])
             ELSE Returned([selected_agents |->
                                [i \in DOMAIN routed.value |-> DictEntry(routed.value[i])],
                            meta |-> state.meta \cup {"router_success"}])

\* _specialists_node(state)
SpecialistsNode(state, env) ==
    IF ~AttrOK(state)
    THEN Raised("AttributeError")   \* state.selected_agents, then state.execution_metadata
    ELSE LET selected == state.selected_agents
             tasks == TaskNames(selected)
             results == [i \in DOMAIN tasks |-> ExecuteSpecialist(tasks[i], env)]
             failed(exc) == Returned([specialist_outputs |-> <<SystemErrorOutput(exc)>>,
                                      vector_store_updates |-> << >>,
                                      meta |-> state.meta \cup {"specialists_error"}])
         IN  IF \E i \in DOMAIN selected : selected[i].is_dict
             THEN failed("TypeError")        \* 'agent_name in self.specialists': unhashable dict
             ELSE IF \E i \in DOMAIN results : ~AttrOK(results[i])
             THEN failed("AttributeError")   \* result.metadata
             ELSE Returned([specialist_outputs |-> results,
                            vector_store_updates |->
                                Flatten([i \in DOMAIN results |-> results[i].updates]),
                            meta |-> state.meta \cup {"specialists_success"}])

\* contents of the successful outputs, joined in order
JoinSuccessful(outputs) ==
    LET ok == SelectSeq(outputs, LAMBDA o : o.success /\ o.content # << >>)
    IN  Flatten([i \in DOMAIN ok |-> ok[i].content])

\* SynthesizerAgent._create_fallback_synthesis(outputs)
FallbackSynthesis(outputs) ==
    IF SelectSeq(outputs, LAMBDA o : o.success) = << >>
    THEN <<"Algo inesperado aconteceu e nao foi possivel processar completamente sua acao.">>
    ELSE IF JoinSuccessful(outputs) # << >> THEN JoinSuccessful(outputs)
    ELSE <<"Sua acao foi processada, mas os detalhes nao estao claros no momento.">>

\* MultiAgentGraph._create_fallback_narrative(specialist_outputs)
CreateFallbackNarrative(outputs) ==
    IF SelectSeq(outputs, LAMBDA o : o.success) = << >>
    THEN <<"Algo inesperado aconteceu durante o processamento de sua acao.">>
    ELSE IF JoinSuccessful(outputs) # << >> THEN JoinSuccessful(outputs)
    ELSE <<"Sua acao foi processada com sucesso.">>

\* SynthesizerAgent.synthesize_outputs(state); env.synth is what the LLM call
\* does: "ok", "empty" (blank content) or "raise"
SynthesizeOutputs(state, env) ==
    IF ~AttrOK(state)
    THEN Raised("AttributeError")   \* state.world_context, then state.specialist_outputs
                                    \* in the except branch
    ELSE IF \E i \in DOMAIN state.specialist_outputs : ~AttrOK(state.specialist_outputs[i])
    THEN Raised("AttributeError")   \* output.success, in the try block and in the fallback
    ELSE IF env.synth = "raise" THEN Returned(FallbackSynthesis(state.specialist_outputs))
    ELSE IF env.synth = "empty" THEN Returned(<< >>)
    ELSE Returned(<<"llm_narrative">>)

\* _synthesizer_node(state)
SynthesizerNode(state, env) ==
    IF ~AttrOK(state)
    THEN Raised("AttributeError")   \* inside synthesize_outputs, then state.execution_metadata
    ELSE LET r == SynthesizeOutputs(state, env)
         IN  IF ~r.raised
             THEN Returned([final_narrative |-> r.value,
                            meta |-> state.meta \cup {"synthesizer_success"}])
             ELSE IF \E i \in DOMAIN state.specialist_outputs :
                        ~AttrOK(state.specialist_outputs[i])
             THEN Raised("AttributeError")   \* output.success in _create_fallback_narrative
             ELSE Returned([final_narrative |->
                                CreateFallbackNarrative(state.specialist_outputs),
                            meta |-> state.meta \cup {"synthesizer_error"}])

\* _build_graph: the entry point and the edges
EntryPoint == "router"

END == "END"

Edge(node) ==
    CASE node = "router" -> "specialists"
      [] node = "specialists" -> "synthesizer"
      [] node = "synthesizer" -> END

\* the node function registered under a name
NodeCall(node, state, env) ==
    CASE node = "router" -> RouterNode(state, env)
      [] node = "specialists" -> SpecialistsNode(state, env)
      [] node = "synthesizer" -> SynthesizerNode(state, env)

\* the state after a node's partial update is applied
ApplyUpdate(state, upd) ==
    [f \in DOMAIN state |-> IF f \in DOMAIN upd THEN upd[f] ELSE state[f]]

\* the state process_user_input starts the graph with
InitialState(user_input, world_context) ==
    AgentState(user_input, world_context, << >>, {"start_time"})

\* self.graph.ainvoke(initial_state): the nodes run along the edges; a node
\* that raises aborts the run
GraphRun(state, env) ==
    LET r1 == RouterNode(state, env)
        s1 == ApplyUpdate(state, r1.value)
        r2 == SpecialistsNode(s1, env)
        s2 == ApplyUpdate(s1, r2.value)
        r3 == SynthesizerNode(s2, env)
    IN  IF r1.raised THEN r1
        ELSE IF r2.raised THEN r2
        ELSE IF r3.raised THEN r3
        ELSE Returned(ApplyUpdate(s2, r3.value))

\* process_user_input: what it gives back once the graph run has ended
ProcessUserInputResult(graphOutcome, initial) ==
    IF ~graphOutcome.raised THEN graphOutcome
    ELSE IF ~AttrOK(initial)
         THEN Raised("AttributeError")      \* error_state.final_narrative = ...
         ELSE Returned([initial EXCEPT
                  !.final_narrative = <<"Erro no processamento: ", graphOutcome.exc>>,
                  !.meta = @ \cup {"system_error"}])

\* process_user_input(user_input, world_context)
ProcessUserInput(user_input, world_context, env) ==
    ProcessUserInputResult(GraphRun(InitialState(user_input, world_context), env),
                           InitialState(user_input, world_context))

(***************************************************************************)
(* services/multiagent_service.py : MultiAgentService                      *)
(***************************************************************************)

\* expire_seconds of the entries process_user_action stores
CacheTTL == 3600

\* the inputs of the service harness
Inputs == {"i1", "i2"}

Contexts == {"c1"}

Users == {"u1", "u2"}

\* hash(...) of a value, as the decimal text the f-string interpolates
HashText(v) == "#" \o ToString(v)

\* the key with the user id left out of it
GenerateCacheKeyShared(user_input, world_context, user_id) ==
    <<"multiagent:", HashText(user_input), ":user:", ":", "context:",
      HashText(world_context)>>

\* _generate_cache_key: f"multiagent:{input_hash}:user:{user_id}:context:{context_hash}"
GenerateCacheKey(user_input, world_context, user_id) ==
    <<"multiagent:", HashText(user_input), ":user:", user_id, ":", "context:",
      HashText(world_context)>>

\* clear_user_cache: pattern = f"multiagent:*:user:{user_id}:*"
ClearPattern(user_id) == <<"multiagent:", "*", ":user:", user_id, ":", "*">>

\* get(): the key holds an entry that has not expired
CacheHit(c, k, t) == k \in DOMAIN c /\ ~IsExpired(c[k], t)

\* the error state of process_user_action's except branch
ErrorState(user_input, world_context, exc) ==
    AgentState(user_input, world_context,
               <<"Desculpe, ocorreu um erro ao processar sua acao: ", exc>>, {"error"})

\* process_user_action with an except branch that also stores the error
\* state it returns
ServiceAfterGraphStoring(pi, c, key, t, user_input, world_context) ==
    LET err == ErrorState(user_input, world_context,
                          IF pi.raised THEN pi.exc ELSE "AttributeError")
    IN  IF ~pi.raised /\ AttrOK(pi.value)
        THEN [state |-> pi.value, stored |-> TRUE,
              cache |-> CacheAfterSet(c, key, t, [pi.value EXCEPT !.kind = "dict"], CacheTTL)]
        ELSE [state |-> err, stored |-> TRUE,
              cache |-> CacheAfterSet(c, key, t, [err EXCEPT !.kind = "dict"], CacheTTL)]

\* process_user_action after process_user_input has ended with outcome pi:
\* result.dict() is stored and result returned, or the except branch runs
ServiceAfterGraph(pi, c, key, t, user_input, world_context) ==
    IF ~pi.raised /\ AttrOK(pi.value)
    THEN [state |-> pi.value, stored |-> TRUE,
          cache |-> CacheAfterSet(c, key, t, [pi.value EXCEPT !.kind = "dict"], CacheTTL)]
    ELSE [state |-> ErrorState(user_input, world_context,
                               IF pi.raised THEN pi.exc ELSE "AttributeError"),
          stored |-> FALSE, cache |-> c]

\* process_user_action(user_input, world_context, user_id), as one call
ProcessUserAction(c, t, user_input, world_context, user_id, env) ==
    LET key == GenerateCacheKey(user_input, world_context, user_id)
        c1 == CacheAfterGet(c, key, t)
        after == ServiceAfterGraph(ProcessUserInput(user_input, world_context, env),
                                   c1, key, t, user_input, world_context)
    IN  IF CacheHit(c, key, t)
        THEN [state |-> [c[key].value EXCEPT !.kind = StateKind], cache |-> c1,
              graph_ran |-> FALSE, from_cache |-> TRUE]
        ELSE [state |-> after.state, cache |-> after.cache,
              graph_ran |-> TRUE, from_cache |-> FALSE]

\* clear_user_cache(user_id): the count returned and the cache afterwards
ClearUserCache(c, user_id) ==
    [count |-> Cardinality(KeysToDelete(c, ClearPattern(user_id))),
     cache |-> CacheAfterDeletePattern(c, ClearPattern(user_id))]

(***************************************************************************)
(* api/v1/endpoints/multiagent.py : process_action                         *)
(***************************************************************************)

\* enrich_world_context: the base context plus user data and a timestamp
EnrichedContext(world_context, t) == [base |-> world_context, timestamp |-> t]

\* the handler once process_user_action has returned result: an
\* ActionResponse, or HTTPException(500) from the except branch
ProcessActionResponse(result) ==
    IF ~AttrOK(result)
    THEN [status |-> 500, narrative |-> << >>, success |-> FALSE]   \* result.vector_store_updates
    ELSE IF \E i \in DOMAIN result.selected_agents : result.selected_agents[i].is_dict
    THEN [status |-> 500, narrative |-> << >>, success |-> FALSE]   \* agents_used: list[str]
    ELSE IF \E i \in DOMAIN result.specialist_outputs : ~AttrOK(result.specialist_outputs[i])
    THEN [status |-> 500, narrative |-> << >>, success |-> FALSE]   \* output.success
    ELSE [status |-> 200, narrative |-> result.final_narrative,
          success |-> result.final_narrative # << >>]

\* the tasks the handler adds to background_tasks before it builds the
\* response: none when result.vector_store_updates raises
ScheduledTasks(result) ==
    IF ~AttrOK(result) THEN << >>
    ELSE (IF result.vector_store_updates # << >> THEN <<"vector_store">> ELSE << >>)
         \o <<"execution_log">>

\* process_vector_store_updates / save_execution_log: each catches every
\* exception and logs it; save_execution_log calls 'insert', a name the
\* module never imports
RunTask(task, result) ==
    [task |-> task,
     outcome |-> IF ~AttrOK(result) \/ task = "execution_log"
                 THEN "error_logged" ELSE "done"]

\* the tasks of a sent response, run one after the other
RunTasks(tasks, result) == [i \in DOMAIN tasks |-> RunTask(tasks[i], result)]

(***************************************************************************)
(* middleware/auth.py, dependencies/auth.py : the auth resolvers           *)
(***************************************************************************)

LoopbackHosts == {"127.0.0.1", "localhost", "::1"}

\* request.client.host; "no_client" stands for request.client being None
Hosts == LoopbackHosts \cup {"10.0.0.5", "no_client"}

\* is_localhost_request(request)
IsLocalhostRequest(host) == host \in LoopbackHosts

\* bearer tokens: whether the backend auth service resolves the token to a
\* user, whether it decodes as a JWT, and its "sub" claim
Tokens ==
    {[name |-> "valid", resolves |-> TRUE, decodable |-> TRUE, sub |-> "u1"],
     [name |-> "no_sub", resolves |-> TRUE, decodable |-> TRUE, sub |-> None],
     [name |-> "expired", resolves |-> FALSE, decodable |-> TRUE, sub |-> "u2"],
     [name |-> "garbage", resolves |-> FALSE, decodable |-> FALSE, sub |-> None]}

NoToken == [name |-> "", resolves |-> FALSE, decodable |-> FALSE, sub |-> None]

\* the Authorization header of a request
Headers ==
    {[present |-> FALSE, scheme |-> "", token |-> NoToken]}
    \cup [present : {TRUE}, scheme : {"Bearer", "bearer", "Basic"},
          token : Tokens \cup {NoToken}]

\* scheme.lower()
Lower(scheme) ==
    CASE scheme = "Bearer" -> "bearer"
      [] scheme = "Basic" -> "basic"
      [] OTHER -> scheme

\* the status HTTPBearer(auto_error=True) rejects with: 403 in the FastAPI
\* releases that answer "Not authenticated" with 403, 401 in the later ones
LibraryRejectStatuses == {401, 403}

Rejected(status) == [rejected |-> TRUE, status |-> status, value |-> None]

Accepted(v) == [rejected |-> FALSE, status |-> 0, value |-> v]

\* await super().__call__(request), JWTBearer being built with auto_error=True:
\* a missing or non-bearer header is rejected here
HTTPBearerCall(header, lib) ==
    IF ~header.present \/ header.token.name = "" THEN Rejected(lib)
    ELSE IF Lower(header.scheme) # "bearer" THEN Rejected(lib)
    ELSE Accepted(header)

\* _verify_jwt_token(token): the backend auth service resolves the token;
\* any failure of the call counts as invalid
VerifyJwtToken(token, authUp) == authUp /\ token.resolves

\* JWTBearer.__call__(request)
JWTBearerCall(header, lib, authUp) ==
    LET credentials == HTTPBearerCall(header, lib)
    IN  IF credentials.rejected THEN credentials
        ELSE IF credentials.value.scheme # "Bearer" THEN Rejected(401)
        ELSE IF ~VerifyJwtToken(credentials.value.token, authUp) THEN Rejected(401)
        ELSE Accepted(credentials.value.token)

\* get_current_user_id(token)
GetCurrentUserId(token) ==
    IF ~token.decodable THEN Rejected(401)
    ELSE IF token.sub = None THEN Rejected(401)
    ELSE Accepted(token.sub)

\* get_authenticated_user(request, token): the dependency jwt_bearer is
\* resolved before the body runs
GetAuthenticatedUser(host, header, lib, authUp) ==
    LET token == JWTBearerCall(header, lib, authUp)
    IN  IF token.rejected THEN token
        ELSE IF IsLocalhostRequest(host) THEN Accepted("localhost_user")
        ELSE IF GetCurrentUserId(token.value).rejected THEN Rejected(401)
        ELSE GetCurrentUserId(token.value)

\* get_optional_user(request, token): the same dependency jwt_bearer is
\* resolved before the body runs
GetOptionalUser(host, header, lib, authUp) ==
    LET token == JWTBearerCall(header, lib, authUp)
    IN  IF token.rejected THEN token
        ELSE IF IsLocalhostRequest(host) THEN Accepted("localhost_user")
        ELSE IF GetCurrentUserId(token.value).rejected THEN Accepted(None)
        ELSE GetCurrentUserId(token.value)

NoCall == [op |-> "none"]

NoRequest == [user_input |-> "", world_context |-> "", user_id |-> ""]

NoStages == [router |-> "pending", specialists |-> "pending", synthesizer |-> "pending"]

NoState == InitialState("", "")

NoResponse == [status |-> 0, narrative |-> << >>, success |-> FALSE]

\* _global_cache = None, and no CacheManager built yet
NoInstances ==
    [global |-> 0, managers |-> << >>, stored |-> {}, served |-> [op |-> "none"]]

\* BackgroundTasks() of a request: nothing scheduled, nothing run
NoTasks == [scheduled |-> << >>, ran |-> << >>]

Init ==
    /\ now = 0
    /\ cache = << >>
    /\ lastCache = NoCall
    /\ svcCall = NoCall
    /\ lastRun = [args |-> <<>>, at |-> -1, state |-> NoState]
    /\ pc = "idle"
    /\ req = NoRequest
    /\ gstate = NoState
    /\ gout = Returned(NoState)
    /\ stages = NoStages
    /\ piOut = Returned(NoState)
    /\ svcOut = NoState
    /\ resp = NoResponse
    /\ call = NoCall
    /\ di = NoInstances
    /\ background = NoTasks

\* time passes
Tick ==
    /\ now < MaxClock
    /\ now' = now + 1
    /\ UNCHANGED <<cache, lastCache, serviceVars, pipeVars, call, appVars>>

\* await cache.set(key, value, expire_seconds)
CacheSet ==
    \E k \in HarnessKeys, v \in HarnessValues, e \in 0..MaxExpire :
        /\ cache' = CacheAfterSet(cache, k, now, v, e)
        /\ lastCache' = [op |-> "set", key |-> k, at |-> now]
        /\ UNCHANGED <<now, serviceVars, pipeVars, call, appVars>>

\* await cache.get(key)
CacheGet ==
    \E k \in HarnessKeys :
        /\ cache' = CacheAfterGet(cache, k, now)
        /\ lastCache' = [op |-> "get", key |-> k, at |-> now,
                         found |-> k \in DOMAIN cache,
                         entry |-> IF k \in DOMAIN cache THEN cache[k]
                                   ELSE NewEntry(0, None, 0),
                         result |-> CacheGetResult(cache, k, now),
                         kept |-> k \in DOMAIN cache']
        /\ UNCHANGED <<now, serviceVars, pipeVars, call, appVars>>

\* await cache.delete(key)
CacheDelete ==
    \E k \in HarnessKeys :
        /\ cache' = (IF k \in DOMAIN cache THEN DictDel(cache, k) ELSE cache)
        /\ lastCache' = [op |-> "delete", key |-> k, at |-> now,
                         result |-> k \in DOMAIN cache]
        /\ UNCHANGED <<now, serviceVars, pipeVars, call, appVars>>

\* the background task _cleanup_expired wakes up
CacheCleanup ==
    /\ cache' = CacheAfterCleanup(cache, now)
    /\ cache' # cache
    /\ lastCache' = [op |-> "cleanup", at |-> now]
    /\ UNCHANGED <<now, serviceVars, pipeVars, call, appVars>>

NextCache == Tick \/ CacheSet \/ CacheGet \/ CacheDelete \/ CacheCleanup

SpecCache == Init /\ [][NextCache]_vars

(***************************************************************************)
(* What the LLM calls and the specialists of one request may do.           *)
(***************************************************************************)

\* the tool classes the routing LLM picks from in the pipeline harness
PipelineTools == {"WorldExpertTool", "RulesExpertTool"}

PipelineRoutings ==
    {[kind |-> "raise", tools |-> << >>]}
    \cup {[kind |-> "one", tools |-> <<ToolInstance(c, "inst")>>] :
             c \in PipelineTools \cup {"dict"}}
    \cup {[kind |-> "list", tools |-> << >>],
          [kind |-> "list", tools |-> <<ToolInstance("WorldExpertTool", "inst"),
                                        ToolInstance("RulesExpertTool", "inst")>>]}

Envs ==
    [llm : PipelineRoutings,
     failing : SUBSET {"world", "rules"},
     updating : {{}, {"world"}},
     synth : {"ok", "empty", "raise"}]

\* the service harness: the LLM calls all succeed, or all raise
ServiceEnvs ==
    {e \in Envs : /\ e.updating = {}
                  /\ \/ (e.llm.kind = "raise" /\ e.failing = {"world", "rules"}
                                               /\ e.synth = "raise")
                     \/ (e.llm.kind = "list" /\ e.llm.tools # << >>
                                              /\ e.failing = {} /\ e.synth = "ok")}

(***************************************************************************)
(* The service harness: calls on one MultiAgentService instance.           *)
(***************************************************************************)

\* the (user_input, world_context, user_id) triples the harness calls with
ServiceArgs == {<<"i1", "c1", "u1">>, <<"i2", "c1", "u1">>, <<"i1", "c1", "u2">>}

\* the service harness advances the clock in steps of ServiceStep seconds
ServiceStep == 1800

MaxServiceSteps == 3

\* time passes (service harness)
ServiceTick ==
    /\ now + ServiceStep <= ServiceStep * MaxServiceSteps
    /\ now' = now + ServiceStep
    /\ UNCHANGED <<cache, lastCache, serviceVars, pipeVars, call, appVars>>

\* await service.process_user_action(user_input, world_context, user_id)
ServiceProcess ==
    \E <<i, c, u>> \in ServiceArgs, env \in ServiceEnvs :
        LET out == ProcessUserAction(cache, now, i, c, u, env)
        IN  /\ cache' = out.cache
            /\ svcCall' = [op |-> "process", user_input |-> i, world_context |-> c,
                           user_id |-> u, at |-> now, graph_ran |-> out.graph_ran,
                           from_cache |-> out.from_cache, state |-> out.state,
                           prev |-> lastRun]
            /\ lastRun' = (IF out.graph_ran
                           THEN [args |-> <<i, c, u>>, at |-> now, state |-> out.state]
                           ELSE lastRun)
            /\ UNCHANGED <<now, lastCache, pipeVars, call, appVars>>

\* an entry is stored under the key process_user_action uses for (i, c, u),
\* with the expiry process_user_action gives its entries
ServiceStore ==
    \E <<i, c, u>> \in ServiceArgs :
        /\ cache' = CacheAfterSet(cache, GenerateCacheKey(i, c, u), now,
                                  [InitialState(i, c) EXCEPT !.kind = "dict",
                                       !.final_narrative = <<"llm_narrative">>],
                                  CacheTTL)
        /\ svcCall' = [op |-> "store", user_input |-> i, world_context |-> c,
                       user_id |-> u, at |-> now]
        /\ UNCHANGED <<now, lastCache, lastRun, pipeVars, call, appVars>>

\* await service.clear_user_cache(user_id)
ServiceClear ==
    \E u \in Users :
        LET out == ClearUserCache(cache, u)
        IN  /\ cache' = out.cache
            /\ svcCall' = [op |-> "clear", user_id |-> u, at |-> now,
                           count |-> out.count, before |-> cache, after |-> out.cache]
            /\ UNCHANGED <<now, lastCache, lastRun, pipeVars, call, appVars>>

NextService == ServiceTick \/ ServiceProcess \/ ServiceStore \/ ServiceClear

SpecService == Init /\ [][NextService]_vars

(***************************************************************************)
(* One POST /multiagent/process-action request, step by step.              *)
(***************************************************************************)

GraphNodes == {"router", "specialists", "synthesizer"}

\* the handler starts: the context is enriched and process_user_action called
ReceiveRequest ==
    /\ pc = "idle"
    /\ \E i \in Inputs, c \in Contexts, u \in Users, env \in Envs :
           req' = [user_input |-> i, world_context |-> EnrichedContext(c, now),
                   user_id |-> u, env |-> env]
    /\ pc' = "lookup"
    /\ background' = NoTasks
    /\ UNCHANGED <<gstate, gout, stages, piOut, svcOut, resp>>
    /\ UNCHANGED <<cacheVars, serviceVars, call, di>>

\* process_user_action looks the request up in the cache; on a miss
\* process_user_input builds the initial state and starts the graph
ServiceLookup ==
    /\ pc = "lookup"
    /\ LET key == GenerateCacheKey(req.user_input, req.world_context, req.user_id)
       IN  /\ cache' = CacheAfterGet(cache, key, now)
           /\ IF CacheHit(cache, key, now)
              THEN /\ svcOut' = [cache[key].value EXCEPT !.kind = StateKind]
                   /\ pc' = "respond"
                   /\ UNCHANGED gstate
              ELSE /\ gstate' = InitialState(req.user_input, req.world_context)
                   /\ pc' = EntryPoint
                   /\ UNCHANGED svcOut
    /\ UNCHANGED <<req, gout, stages, piOut, resp>>
    /\ UNCHANGED <<now, lastCache, serviceVars, call, appVars>>

\* the compiled graph runs the node it stands at and follows its edge
GraphStep ==
    /\ pc \in GraphNodes
    /\ LET out == NodeCall(pc, gstate, req.env)
       IN  IF out.raised
           THEN /\ stages' = [stages EXCEPT ![pc] = "raised"]
                /\ gout' = out
                /\ pc' = "graph_ended"
                /\ UNCHANGED gstate
           ELSE /\ stages' = [stages EXCEPT ![pc] = "returned"]
                /\ gstate' = ApplyUpdate(gstate, out.value)
                /\ gout' = Returned(gstate')
                /\ pc' = (IF Edge(pc) = END THEN "graph_ended" ELSE Edge(pc))
    /\ UNCHANGED <<req, piOut, svcOut, resp>>
    /\ UNCHANGED <<cacheVars, serviceVars, call, appVars>>

\* process_user_input returns the final state, or its except branch runs
GraphReturn ==
    /\ pc = "graph_ended"
    /\ piOut' = ProcessUserInputResult(gout,
                    InitialState(req.user_input, req.world_context))
    /\ pc' = "after_graph"
    /\ UNCHANGED <<req, gstate, gout, stages, svcOut, resp>>
    /\ UNCHANGED <<cacheVars, serviceVars, call, appVars>>

\* process_user_action stores and returns the result, or its except branch runs
ServiceReturn ==
    /\ pc = "after_graph"
    /\ LET after == ServiceAfterGraph(piOut, cache,
                        GenerateCacheKey(req.user_input, req.world_context, req.user_id),
                        now, req.user_input, req.world_context)
       IN  /\ svcOut' = after.state
           /\ cache' = after.cache
    /\ pc' = "respond"
    /\ UNCHANGED <<req, gstate, gout, stages, piOut, resp>>
    /\ UNCHANGED <<now, lastCache, serviceVars, call, appVars>>

\* the handler schedules its background tasks and builds the
\* ActionResponse, or raises HTTPException(500)
EndpointRespond ==
    /\ pc = "respond"
    /\ resp' = ProcessActionResponse(svcOut)
    /\ background' = [scheduled |-> ScheduledTasks(svcOut), ran |-> << >>]
    /\ pc' = "responded"
    /\ UNCHANGED <<req, gstate, gout, stages, piOut, svcOut>>
    /\ UNCHANGED <<cacheVars, serviceVars, call, di>>

\* the response has been sent: the background tasks attached to it run, in
\* the order they were added; a handler that raised attached none
BackgroundRun ==
    /\ pc = "responded"
    /\ background' = [background EXCEPT
                         !.ran = IF resp.status = 200
                                 THEN RunTasks(background.scheduled, svcOut)
                                 ELSE << >>]
    /\ pc' = "settled"
    /\ UNCHANGED <<req, gstate, gout, stages, piOut, svcOut, resp>>
    /\ UNCHANGED <<cacheVars, serviceVars, call, di>>

\* the request is over; the next one can be served
RequestDone ==
    /\ pc = "settled"
    /\ pc' = "idle"
    /\ req' = NoRequest
    /\ gstate' = NoState
    /\ gout' = Returned(NoState)
    /\ stages' = NoStages
    /\ piOut' = Returned(NoState)
    /\ svcOut' = NoState
    /\ resp' = NoResponse
    /\ background' = NoTasks
    /\ UNCHANGED <<cacheVars, serviceVars, call, di>>

NextPipeline ==
    \/ ReceiveRequest \/ ServiceLookup \/ GraphStep \/ GraphReturn
    \/ ServiceReturn \/ EndpointRespond \/ BackgroundRun \/ RequestDone

SpecPipeline == Init /\ [][NextPipeline]_vars

(***************************************************************************)
(* The router harness: calls of RouterAgent.route_request.                 *)
(***************************************************************************)

\* longest list of tools the routing LLM returns in the harness
MaxRouted == 2

\* what the structured-output call may hand back as one element
RoutedObjects == {ToolInstance(c, "inst") : c \in ToolClasses \cup {"dict"}}

RECURSIVE SeqsUpTo(_, _)
\* the sequences over S of length at most n
SeqsUpTo(S, n) ==
    IF n = 0 THEN {<< >>}
    ELSE SeqsUpTo(S, n - 1)
         \cup {Append(q, x) : q \in {r \in SeqsUpTo(S, n - 1) : Len(r) = n - 1}, x \in S}

RouterRoutings ==
    {[kind |-> "raise", tools |-> << >>]}
    \cup {[kind |-> "one", tools |-> <<t>>] :
             t \in RoutedObjects \cup {ToolInstance("NoneType", "")}}
    \cup {[kind |-> "list", tools |-> q] : q \in SeqsUpTo(RoutedObjects, MaxRouted)}

\* await router.route_request(user_input, world_context)
RouteCall ==
    \E llm \in RouterRoutings :
        /\ call' = [op |-> "route", llm |-> llm, out |-> RouteRequest(llm)]
        /\ UNCHANGED <<cacheVars, serviceVars, pipeVars, appVars>>

NextRouter == RouteCall

SpecRouter == Init /\ [][NextRouter]_vars

(***************************************************************************)
(* The stage harness: calls of MultiAgentGraph._specialists_node.          *)
(***************************************************************************)

\* longest selected_agents list of the stage harness
MaxSelected == 2

\* the elements selected_agents may hold: bare names (registered or not)
\* and routed dicts
SelectedEntries ==
    {NameEntry(n) : n \in {"world", "rules", "dragon"}}
    \cup {DictEntry(RoutedEntry(ToolInstance(c, "inst"))) : c \in PipelineTools}

\* the stage harness: only the specialists' own behaviour varies
StageEnvs ==
    {e \in Envs : e.llm.kind = "raise" /\ e.updating = {} /\ e.synth = "ok"}

\* await graph._specialists_node(state)
StageCall ==
    \E i \in Inputs, c \in Contexts, env \in StageEnvs,
       selected \in SeqsUpTo(SelectedEntries, MaxSelected) :
        LET st == [InitialState(i, c) EXCEPT !.selected_agents = selected]
        IN  /\ call' = [op |-> "specialists", state |-> st, env |-> env,
                        out |-> SpecialistsNode(st, env)]
            /\ UNCHANGED <<cacheVars, serviceVars, pipeVars, appVars>>

NextStage == StageCall

SpecStage == Init /\ [][NextStage]_vars

(***************************************************************************)
(* The auth harness: one request resolved by an auth dependency.           *)
(***************************************************************************)

\* Depends(get_authenticated_user) is resolved for a request
ResolveMandatory ==
    \E host \in Hosts, header \in Headers, lib \in LibraryRejectStatuses,
       authUp \in BOOLEAN :
        /\ call' = [op |-> "mandatory", host |-> host, header |-> header,
                        auth_up |-> authUp,
                        out |-> GetAuthenticatedUser(host, header, lib, authUp)]
        /\ UNCHANGED <<cacheVars, serviceVars, pipeVars, appVars>>

\* Depends(get_optional_user) is resolved for a request
ResolveOptional ==
    \E host \in Hosts, header \in Headers, lib \in LibraryRejectStatuses,
       authUp \in BOOLEAN :
        /\ call' = [op |-> "optional", host |-> host, header |-> header,
                        auth_up |-> authUp,
                        out |-> GetOptionalUser(host, header, lib, authUp)]
        /\ UNCHANGED <<cacheVars, serviceVars, pipeVars, appVars>>

NextAuth == ResolveMandatory \/ ResolveOptional

SpecAuth == Init /\ [][NextAuth]_vars

(***************************************************************************)
(* C8: a get of an entry set with expire_seconds = n > 0 returns the      *)
(* entry's value when performed before the expiry instant, and returns     *)
(* absent and leaves the key out of the cache when performed after it.     *)
(***************************************************************************)
CacheExpiry ==
    (lastCache.op = "get" /\ lastCache.found /\ lastCache.entry.expires_at # NoExpiry)
        => /\ lastCache.at < lastCache.entry.expires_at
                => (lastCache.result = lastCache.entry.value /\ lastCache.kept)
           /\ lastCache.at > lastCache.entry.expires_at
                => (lastCache.result = None /\ ~lastCache.kept)

\* a get hit an entry one second after its expiry instant
CacheExpiryWitness ==
    /\ lastCache.op = "get"
    /\ lastCache.found
    /\ lastCache.entry.expires_at # NoExpiry
    /\ lastCache.at = lastCache.entry.expires_at + 1
    /\ lastCache.result = None

(***************************************************************************)
(* C9: a second process_user_action call with the same user_input,         *)
(* world_context and user_id, made less than 3600 seconds after a call     *)
(* that ran the agent graph, returns the state of that call and does not   *)
(* run the agent graph again.                                              *)
(***************************************************************************)
SecondCallServedFromCache ==
    (/\ svcCall.op = "process"
     /\ svcCall.prev.args = <<svcCall.user_input, svcCall.world_context, svcCall.user_id>>
     /\ svcCall.at - svcCall.prev.at < CacheTTL)
        => (~svcCall.graph_ran /\ svcCall.state = svcCall.prev.state)

(***************************************************************************)
(* C10: after clear_user_cache(u) no entry stored under a                  *)
(* process_user_action key of user u remains, the count returned is the    *)
(* number of entries removed, and the entries of other users are unchanged. *)
(***************************************************************************)
UserKeys(u) == {GenerateCacheKey(i, c, u) : i \in Inputs, c \in Contexts}

ClearCacheCallerScoped ==
    svcCall.op = "clear"
        => /\ DOMAIN svcCall.after \cap UserKeys(svcCall.user_id) = {}
           /\ svcCall.count = Cardinality(DOMAIN svcCall.before \ DOMAIN svcCall.after)
           /\ \A k \in DOMAIN svcCall.before \ UserKeys(svcCall.user_id) :
                  k \in DOMAIN svcCall.after /\ svcCall.after[k] = svcCall.before[k]

(***************************************************************************)
(* C1: the router stage finishes, with a routing result or its fallback,   *)
(* before any specialist starts, and the synthesizer stage does not start  *)
(* until the specialists stage has settled every task it launched.         *)
(***************************************************************************)
PipelineStageOrder ==
    /\ stages.router \in {"pending", "returned"}
    /\ stages.specialists # "pending" => stages.router = "returned"
    /\ stages.synthesizer # "pending" => stages.specialists = "returned"

(***************************************************************************)
(* C3: whatever the router, the specialists and the synthesizer of a       *)
(* request do, the process-action handler answers with an ActionResponse   *)
(* (HTTP 200) carrying a non-empty narrative.                              *)
(***************************************************************************)
AgentFailureNeverHttpError ==
    pc = "responded" => (resp.status = 200 /\ resp.narrative # << >>)

(***************************************************************************)
(* C4: route_request never raises; when the routing LLM call raises it     *)
(* returns exactly the single world entry; every element of every result   *)
(* carries an agent and an instructions field.                             *)
(***************************************************************************)
RouteRequestNeverRaises ==
    call.op = "route"
        => /\ ~call.out.raised
           /\ call.llm.kind = "raise"
                => call.out.value =
                       <<[agent |-> "world",
                          instructions |->
                              "Processar entrada do usuário com contexto do mundo",
                          tool_class |-> "WorldExpertTool"]>>
           /\ \A i \in DOMAIN call.out.value :
                  {"agent", "instructions"} \subseteq DOMAIN call.out.value[i]

\* the routing LLM call raised and route_request answered
RouteFallbackWitness ==
    /\ call.op = "route"
    /\ call.llm.kind = "raise"
    /\ ~call.out.raised
    /\ Len(call.out.value) = 1

(***************************************************************************)
(* C5: a request from a loopback host resolves, under the mandatory-auth   *)
(* resolver, to "localhost_user" whether or not it carries an              *)
(* Authorization header.                                                   *)
(***************************************************************************)
LocalhostBypass ==
    (call.op = "mandatory" /\ call.host \in {"127.0.0.1", "localhost", "::1"})
        => (~call.out.rejected /\ call.out.value = "localhost_user")

(***************************************************************************)
(* C6: for a non-loopback host, the mandatory-auth resolver rejects with   *)
(* 401 when the Authorization header is missing, its scheme is not         *)
(* Bearer, or the backend auth service does not resolve the token.         *)
(***************************************************************************)
NonLoopbackRejected401 ==
    (/\ call.op = "mandatory"
     /\ call.host \notin {"127.0.0.1", "localhost", "::1"}
     /\ \/ ~call.header.present
        \/ call.header.scheme # "Bearer"
        \/ ~(call.auth_up /\ call.header.token.resolves))
        => (call.out.rejected /\ call.out.status = 401)

(***************************************************************************)
(* C7: the optional-auth resolver never rejects; for a non-loopback caller *)
(* it gives the user id of a valid token and an absent value when the      *)
(* header is missing or the token fails validation.                        *)
(***************************************************************************)
OptionalNeverRejects ==
    call.op = "optional"
        => /\ ~call.out.rejected
           /\ (/\ call.host \notin {"127.0.0.1", "localhost", "::1"}
               /\ \/ ~call.header.present
                  \/ ~(call.auth_up /\ call.header.token.resolves))
                => call.out.value = None

(***************************************************************************)
(* C2: when a specialist among the N selected ones raises, the specialists *)
(* stage still yields N outputs: the failing specialist's output has       *)
(* success = false and its own agent name, and the others are what those   *)
(* specialists returned.                                                   *)
(***************************************************************************)
SpecialistIsolation ==
    (/\ call.op = "specialists"
     /\ \E i \in DOMAIN TaskNames(call.state.selected_agents) :
            TaskNames(call.state.selected_agents)[i] \in call.env.failing)
        => LET names == TaskNames(call.state.selected_agents)
               outputs == call.out.value.specialist_outputs
           IN  /\ ~call.out.raised
               /\ Len(outputs) = Len(names)
               /\ \A i \in DOMAIN names :
                      IF names[i] \in call.env.failing
                      THEN ~outputs[i].success /\ outputs[i].agent_type = names[i]
                      ELSE outputs[i] = SpecialistReply(names[i], call.env)

(***************************************************************************)
(* utils/cache.py : get_cache_manager; services/multiagent_service.py :    *)
(* MultiAgentService.__init__ -- the CacheManager a request is given.      *)
(***************************************************************************)

\* CacheManager instances one process builds in the injection harness
MaxInstances == 3

\* CacheManager(): __init__ starts its cleanup task with
\* asyncio.create_task, which raises RuntimeError when the constructing
\* thread runs no event loop (loop = FALSE)
NewCacheManager(d, loop) ==
    IF loop
    THEN [raised |-> FALSE, instance |-> Len(d.managers) + 1,
          di |-> [d EXCEPT !.managers = Append(@, << >>)]]
    ELSE [raised |-> TRUE, instance |-> 0, di |-> d]

\* get_cache_manager(): the instance is built on first use and kept in
\* _global_cache
GetCacheManager(d, loop) ==
    IF d.global # 0 THEN [raised |-> FALSE, instance |-> d.global, di |-> d]
    ELSE IF NewCacheManager(d, loop).raised THEN NewCacheManager(d, loop)
    ELSE [raised |-> FALSE, instance |-> NewCacheManager(d, loop).instance,
          di |-> [NewCacheManager(d, loop).di EXCEPT
                     !.global = NewCacheManager(d, loop).instance]]

\* 'cache_manager: CacheManager = Depends()': with no callable given the
\* dependency is the annotated class itself, called once for each request
ResolveCacheManager(d, loop) == NewCacheManager(d, loop)

\* a multiagent request: its MultiAgentService is built by dependency
\* injection, then the request stores an entry under k or looks k up
DIRequest ==
    \E op \in {"store", "lookup"}, k \in HarnessKeys, loop \in BOOLEAN :
        /\ Len(di.managers) < MaxInstances
        /\ LET r == ResolveCacheManager(di, loop)
               m == r.instance
               c == IF r.raised THEN << >> ELSE r.di.managers[m]
               stores == ~r.raised /\ op = "store"
           IN  di' = [r.di EXCEPT
                        !.managers = IF stores
                                     THEN [@ EXCEPT ![m] = DictPut(c, k, "v1")]
                                     ELSE @,
                        !.stored = IF stores THEN @ \cup {k} ELSE @,
                        !.served = [op |-> op, key |-> k, failed |-> r.raised,
                                    manager |-> m,
                                    stored_before |-> di.stored,
                                    found |-> ~r.raised /\ k \in DOMAIN c]]
        /\ UNCHANGED <<cacheVars, serviceVars, pipeVars, call, background>>

\* a caller of get_cache_manager()
DIGetCacheManager ==
    \E loop \in BOOLEAN :
        /\ di.global # 0 \/ Len(di.managers) < MaxInstances
        /\ di' = [GetCacheManager(di, loop).di EXCEPT
                     !.served = [op |-> "get_cache_manager",
                                 failed |-> GetCacheManager(di, loop).raised,
                                 manager |-> GetCacheManager(di, loop).instance]]
        /\ UNCHANGED <<cacheVars, serviceVars, pipeVars, call, background>>

NextInjection == DIRequest \/ DIGetCacheManager

SpecInjection == Init /\ [][NextInjection]_vars

(***************************************************************************)
(* C11: every multiagent request of one process is served with the same    *)
(* CacheManager instance: a request looking up a key that an earlier       *)
(* request stored (nothing expires or is deleted in between) finds it.     *)
(***************************************************************************)
SharedCacheAcrossRequests ==
    (di.served.op = "lookup" /\ di.served.key \in di.served.stored_before)
        => (~di.served.failed /\ di.served.found)

(***************************************************************************)
(* agents/campaign_creation_agent.py : CampaignCreationAgent;              *)
(* routers/campaign.py : create_campaign; main.py : the mounted routers.   *)
(***************************************************************************)

\* a result dict of the agent: 'success' is "absent", "true" or "false";
\* keys are the content keys the dict carries
CampaignDict(success, error, error_message, id, keys) ==
    [success |-> success, error |-> error, error_message |-> error_message,
     id |-> id, keys |-> keys]

\* the except branch of create_campaign: {"success": False, "error_message": str(e)}
CampaignFailure(msg) == CampaignDict("false", None, msg, None, {})

\* _extract_json_from_response: the decoded object, or the structured
\* failure object when the text is not JSON.  llm is what the LLM answered:
\* "json_pt" (keys campanha, mundo, protagonista), "json_en" (the keys of
\* CampaignCreationResponse) or "garbage"
ExtractJson(llm) ==
    CASE llm = "json_pt" ->
            CampaignDict("absent", None, None, None, {"campanha", "mundo", "protagonista"})
      [] llm = "json_en" ->
            CampaignDict("absent", None, None, None,
                         {"campaign", "character", "world_entities", "campaign_time",
                          "initial_mission"})
      [] OTHER ->
            CampaignDict("false", "Falha ao decodificar resposta do LLM", None, None, {})

\* _persist_related_data: the tables written, in order.  env.admin: the
\* admin client is available; env.world, env.character, env.log: that
\* insert succeeds
PersistRelatedData(campaign_json, env) ==
    LET worldDue == "mundo" \in campaign_json.keys
        charDue == "protagonista" \in campaign_json.keys
        chars == IF charDue /\ env.character THEN <<"characters">> ELSE << >>
        logs == IF env.log THEN <<"execution_logs">> ELSE << >>
    IN  IF ~env.admin THEN << >>
        ELSE IF worldDue /\ ~env.world THEN << >>    \* the outer except ends the method
        ELSE (IF worldDue THEN <<"worlds">> ELSE << >>) \o chars \o logs

\* create_campaign(campaign_data): the dict returned and the tables written
CreateCampaign(env) ==
    IF env.llm = "raise"
    THEN [result |-> CampaignFailure("llm_error"), writes |-> << >>]
    ELSE IF ~env.user_id
    THEN [result |-> CampaignFailure("ID do usuario nao fornecido"), writes |-> << >>]
    ELSE IF env.insert = "raise"
    THEN [result |-> CampaignFailure("insert_error"), writes |-> << >>]
    ELSE IF env.insert = "empty"
    THEN [result |-> CampaignFailure("Falha ao salvar campanha no banco de dados"),
          writes |-> << >>]
    ELSE [result |-> [ExtractJson(env.llm) EXCEPT !.id = "new_id"],
          writes |-> <<"campaigns">> \o PersistRelatedData(ExtractJson(env.llm), env)]

\* the fields CampaignCreationResponse requires
RequiredResponseFields == {"campaign", "character", "world_entities", "campaign_time"}

\* str(e) of the HTTPException raised inside the handler's own try block:
\* "<status>: <detail>", or empty in releases whose HTTPException sets no args
HTTPExceptionTexts(status, detail) == {<<status, ": ">> \o detail, << >>}

\* create_campaign (the route handler) once the agent has returned result;
\* text is str(e) of an exception caught by 'except Exception'
CampaignEndpoint(result, text) ==
    IF result.success = "false"
    THEN [status |-> 500, success |-> FALSE, keys |-> {},
          detail |-> <<"Erro interno ao criar campanha: ">> \o text]
    ELSE IF ~(RequiredResponseFields \subseteq result.keys)
    THEN [status |-> 500, success |-> FALSE, keys |-> {},   \* response_model validation
          detail |-> <<"response_validation">>]
    ELSE [status |-> 200, success |-> TRUE, keys |-> result.keys, detail |-> << >>]

\* the detail the handler first raises for a failure result:
\* result.get("error", "Erro ao criar campanha")
FailureDetail(result) ==
    IF result.error # None THEN <<result.error>> ELSE <<"Erro ao criar campanha">>

\* main.py: the routers app.include_router is called with
IncludedRouters == {"chat", "world_context", "admin", "world"}

\* the router that declares a path
RouterOf(path) ==
    CASE path = "/campaigns/create" -> "campaign"
      [] OTHER -> "none"

\* the application answering POST path: 404 unless the router is mounted
AppPost(path, handlerResponse) ==
    IF RouterOf(path) \in IncludedRouters THEN handlerResponse
    ELSE [status |-> 404, success |-> FALSE, keys |-> {}, detail |-> <<"Not Found">>]

\* what the campaign harness lets the LLM and the backend do
CampaignEnvs ==
    [llm : {"raise", "garbage", "json_pt", "json_en"}, user_id : BOOLEAN,
     insert : {"ok", "empty", "raise"}, admin : BOOLEAN,
     world : BOOLEAN, character : BOOLEAN, log : BOOLEAN]

\* await campaign_creation_agent.create_campaign(campaign_data)
CampaignCreate ==
    \E env \in CampaignEnvs :
        /\ call' = [op |-> "create_campaign", env |-> env,
                    insert_ok |-> (env.llm # "raise" /\ env.user_id /\ env.insert = "ok"),
                    out |-> CreateCampaign(env)]
        /\ UNCHANGED <<cacheVars, serviceVars, pipeVars, appVars>>

\* the results the route handler may be given: those of the agent, and the
\* success payload of the test double
AgentResults ==
    {CreateCampaign(env).result : env \in CampaignEnvs}
    \cup {CampaignDict("true", None, None, None,
                       {"campaign", "character", "world_entities", "campaign_time",
                        "initial_mission"})}

\* the route handler called with an agent result
CampaignRespond ==
    \E result \in AgentResults :
        \E text \in HTTPExceptionTexts("500", FailureDetail(result)) :
            /\ call' = [op |-> "campaign_endpoint", result |-> result,
                        out |-> CampaignEndpoint(result, text)]
            /\ UNCHANGED <<cacheVars, serviceVars, pipeVars, appVars>>

\* POST /campaigns/create on the application, authenticated, with a valid body
CampaignPost ==
    \E result \in AgentResults :
        \E text \in HTTPExceptionTexts("500", FailureDetail(result)) :
            /\ call' = [op |-> "post", path |-> "/campaigns/create", result |-> result,
                        out |-> AppPost("/campaigns/create",
                                        CampaignEndpoint(result, text))]
            /\ UNCHANGED <<cacheVars, serviceVars, pipeVars, appVars>>

NextCampaign == CampaignCreate \/ CampaignRespond \/ CampaignPost

SpecCampaign == Init /\ [][NextCampaign]_vars

(***************************************************************************)
(* C12: when the insert into campaigns succeeds, create_campaign returns   *)
(* the payload with the new campaign id and not a failure result, whatever *)
(* the world, character and execution-log writes do; a failure result      *)
(* after the insert was attempted means the insert itself failed.          *)
(***************************************************************************)
RelatedWritesNeverFailCreation ==
    call.op = "create_campaign"
        => /\ call.insert_ok
                => (call.out.result.success # "false" /\ call.out.result.id = "new_id")
           /\ (call.out.result.success = "false" /\ call.env.llm # "raise"
                                                 /\ call.env.user_id)
                => call.env.insert # "ok"

(***************************************************************************)
(* C13: when the agent reports failure (success = false with its error     *)
(* string in error_message), the route handler answers HTTP 500 whose      *)
(* detail is that error string.                                            *)
(***************************************************************************)
AgentFailureFlattenedTo500 ==
    (/\ call.op = "campaign_endpoint"
     /\ call.result.success = "false"
     /\ call.result.error_message # None)
        => (call.out.status = 500 /\ call.out.detail = <<call.result.error_message>>)

(***************************************************************************)
(* C14: POST /campaigns/create on the application, from an authenticated   *)
(* caller with a valid body and an agent returning a success payload, is   *)
(* answered 200 with success = true and the keys campaign, character,      *)
(* world_entities, campaign_time and initial_mission.                      *)
(***************************************************************************)
AppServesCampaignCreate ==
    (/\ call.op = "post"
     /\ call.path = "/campaigns/create"
     /\ call.result.success = "true")
        => /\ call.out.status = 200
           /\ call.out.success
           /\ {"campaign", "character", "world_entities", "campaign_time",
               "initial_mission"} \subseteq call.out.keys

(***************************************************************************)
(* utils/env.py : load_env -- the parser of the environment file.          *)
(***************************************************************************)

\* lines of the files the parser harness reads
MaxLines == 3

\* a stripped line: kind "blank", "comment" or "text"; a text line may hold
\* '=' (eq, with the key before it and text after it) and may end with a
\* backslash (cont); text is what the line holds without that backslash
EnvLine(kind, eq, key, text, cont) ==
    [kind |-> kind, eq |-> eq, key |-> key, text |-> text, cont |-> cont]

EnvLines ==
    {EnvLine("blank", FALSE, "", "", FALSE),
     EnvLine("comment", FALSE, "", "# c", FALSE),
     EnvLine("text", TRUE, "A", "v", FALSE),
     EnvLine("text", TRUE, "A", "v", TRUE),
     EnvLine("text", TRUE, "A", "", TRUE),
     EnvLine("text", TRUE, "B", "w", FALSE),
     EnvLine("text", FALSE, "", "x", TRUE),
     EnvLine("text", FALSE, "", "y", FALSE)}

\* the characters of a text line without its trailing backslash, as tokens
RawTokens(line) ==
    IF line.eq
    THEN <<line.key, "=">> \o (IF line.text = "" THEN << >> ELSE <<line.text>>)
    ELSE <<line.text>>

\* the parser before the first line: current_var = None, current_value = ""
ParserStart == [environ |-> << >>, current_var |-> None, current_value |-> << >>]

\* os.environ[current_var] = current_value; current_var = None; current_value = ""
Commit(p) ==
    [environ |-> DictPut(p.environ, p.current_var, p.current_value),
     current_var |-> None, current_value |-> << >>]

\* the body of 'for line in f' for one line
ParseLine(p, line) ==
    IF line.kind = "blank"
    THEN IF p.current_var # None /\ p.current_value # << >> THEN Commit(p) ELSE p
    ELSE IF line.kind = "comment" THEN p
    ELSE IF line.eq /\ p.current_var = None
    THEN LET started == [p EXCEPT !.current_var = line.key,
                                  !.current_value =
                                      IF line.text = "" THEN << >> ELSE <<line.text>>]
         IN  IF ~line.cont THEN Commit(started) ELSE started
    ELSE IF p.current_var # None
    THEN [p EXCEPT !.current_value = @ \o RawTokens(line) \o <<"\n">>]
    ELSE p

RECURSIVE ParseLines(_, _)
\* the loop over the lines of the file
ParseLines(p, lines) ==
    IF lines = << >> THEN p
    ELSE ParseLines(ParseLine(p, Head(lines)), Tail(lines))

\* load_env() on a file with these lines: os.environ afterwards
LoadEnv(lines) ==
    LET p == ParseLines(ParserStart, lines)
    IN  IF p.current_var # None /\ p.current_value # << >>
        THEN Commit(p).environ
        ELSE p.environ

\* load_env() reading a file
LoadEnvCall ==
    \E lines \in SeqsUpTo(EnvLines, MaxLines) :
        /\ call' = [op |-> "load_env", lines |-> lines, environ |-> LoadEnv(lines)]
        /\ UNCHANGED <<cacheVars, serviceVars, pipeVars, appVars>>

NextEnv == LoadEnvCall

SpecEnv == Init /\ [][NextEnv]_vars

(***************************************************************************)
(* C15: a value continued with a trailing backslash ends at its first line *)
(* without one, so a KEY=value line right after that line is a variable of *)
(* its own; no comment line becomes part of a value.                       *)
(***************************************************************************)
ContinuedValueEndsAtPlainLine ==
    call.op = "load_env"
        => /\ \A k \in DOMAIN call.environ :
                  \A i \in DOMAIN call.environ[k] : call.environ[k][i] # "# c"
           /\ (/\ Len(call.lines) = 3
               /\ call.lines[1].kind = "text" /\ call.lines[1].eq /\ call.lines[1].cont
               /\ call.lines[2].kind = "text" /\ ~call.lines[2].cont
               /\ call.lines[3].kind = "text" /\ call.lines[3].eq /\ ~call.lines[3].cont)
                => /\ call.lines[3].key \in DOMAIN call.environ
                   /\ call.environ[call.lines[3].key] = <<call.lines[3].text>>

(***************************************************************************)
(* C16: for a process-action request that has been answered, the           *)
(* execution-log write was scheduled exactly once and the vector-store     *)
(* task only when the result carries updates; no task runs before the      *)
(* response is produced, and afterwards every scheduled task has run       *)
(* whatever the other one did.                                             *)
(***************************************************************************)
BackgroundTasksAfterResponse ==
    /\ pc \in {"responded", "settled"}
          => /\ Len(SelectSeq(background.scheduled,
                              LAMBDA t : t = "execution_log")) = 1
             /\ Len(SelectSeq(background.scheduled,
                              LAMBDA t : t = "vector_store")) =
                    (IF svcOut.vector_store_updates # << >> THEN 1 ELSE 0)
    /\ pc # "settled" => background.ran = << >>
    /\ pc = "settled"
          => [i \in DOMAIN background.ran |-> background.ran[i].task]
                 = background.scheduled

(***************************************************************************)
(* agents/specialists/rules_agent.py : RulesAgent.  Texts are sequences of *)
(* characters, so that 'keyword in input_lower' is a substring search.     *)
(***************************************************************************)

\* str.lower() of one character (the harness texts use unaccented capitals)
LowerChar(c) ==
    CASE c = "A" -> "a" [] c = "B" -> "b" [] c = "C" -> "c" [] c = "D" -> "d"
      [] c = "E" -> "e" [] c = "F" -> "f" [] c = "I" -> "i" [] c = "L" -> "l"
      [] c = "M" -> "m" [] c = "O" -> "o" [] c = "P" -> "p" [] c = "S" -> "s"
      [] c = "T" -> "t" [] c = "U" -> "u" [] c = "V" -> "v"
      [] OTHER -> c

\* str.lower()
LowerText(s) == [i \in DOMAIN s |-> LowerChar(s[i])]

\* 'k in s' for two strings
Contains(s, k) ==
    \E i \in 1..(Len(s) - Len(k) + 1) : SubSeq(s, i, i + Len(k) - 1) = k

\* any(word in s for word in words)
ContainsAny(s, words) == \E j \in DOMAIN words : Contains(s, words[j])

\* _needs_dice_test: test_keywords
TestKeywords ==
    <<<<"t", "e", "n", "t", "a", "r">>, <<"a", "t", "a", "c", "a", "r">>,
      <<"s", "a", "l", "t", "a", "r">>, <<"e", "s", "c", "a", "l", "a",
      "r">>, <<"c", "o", "n", "v", "e", "n", "c", "e", "r">>, <<"e", "n",
      "g", "a", "n", "a", "r">>, <<"i", "n", "v", "e", "s", "t", "i", "g",
      "a", "r">>, <<"p", "r", "o", "c", "u", "r", "a", "r">>, <<"f", "o",
      "r", "ç", "a", "r">>, <<"q", "u", "e", "b", "r", "a", "r">>, <<"a",
      "b", "r", "i", "r">>, <<"h", "a", "c", "k", "e", "a", "r">>, <<"p",
      "e", "r", "s", "u", "a", "d", "i", "r">>, <<"i", "n", "t", "i", "m",
      "i", "d", "a", "r">>, <<"e", "s", "c", "o", "n", "d", "e", "r">>,
      <<"f", "u", "g", "i", "r">>, <<"c", "o", "r", "r", "e", "r">>, <<"l",
      "u", "t", "a", "r">>>>

\* _determine_difficulty: the words of difficulty 4
VeryHardWords ==
    <<<<"i", "m", "p", "o", "s", "s", "í", "v", "e", "l">>, <<"é", "p", "i",
      "c", "o">>, <<"l", "e", "n", "d", "á", "r", "i", "o">>>>

\* _determine_difficulty: the words of difficulty 3
HardWords ==
    <<<<"d", "i", "f", "í", "c", "i", "l">>, <<"c", "o", "m", "p", "l", "i",
      "c", "a", "d", "o">>, <<"p", "e", "r", "i", "g", "o", "s", "o">>>>

\* _determine_difficulty: the words of difficulty 2
ModerateWords ==
    <<<<"m", "o", "d", "e", "r", "a", "d", "o">>, <<"n", "o", "r", "m", "a",
      "l">>, <<"p", "a", "d", "r", "ã", "o">>>>

\* _determine_difficulty: the words of difficulty 1
EasyWords ==
    <<<<"f", "á", "c", "i", "l">>, <<"s", "i", "m", "p", "l", "e", "s">>,
      <<"b", "á", "s", "i", "c", "o">>>>

\* _select_relevant_archetype: archetype_keywords
ArchetypeKeywords(name) ==
    CASE name = <<"a", "t", "l", "é", "t", "i", "c", "o">> ->
            <<<<"c", "o", "r", "r", "e", "r">>, <<"s", "a", "l", "t", "a",
              "r">>, <<"e", "s", "c", "a", "l", "a", "r">>, <<"n", "a", "d",
              "a", "r">>, <<"f", "o", "r", "ç", "a">>>>
      [] name = <<"c", "o", "r", "a", "j", "o", "s", "o">> ->
            <<<<"a", "t", "a", "c", "a", "r">>, <<"e", "n", "f", "r", "e",
              "n", "t", "a", "r">>, <<"p", "r", "o", "t", "e", "g", "e",
              "r">>, <<"l", "u", "t", "a", "r">>>>
      [] name = <<"i", "n", "t", "e", "l", "i", "g", "e", "n", "t", "e">> ->
            <<<<"i", "n", "v", "e", "s", "t", "i", "g", "a", "r">>, <<"a",
              "n", "a", "l", "i", "s", "a", "r">>, <<"r", "e", "s", "o",
              "l", "v", "e", "r">>, <<"e", "s", "t", "u", "d", "a", "r">>>>
      [] name = <<"c", "a", "r", "i", "s", "m", "á", "t", "i", "c", "o">> ->
            <<<<"c", "o", "n", "v", "e", "n", "c", "e", "r">>, <<"p", "e",
              "r", "s", "u", "a", "d", "i", "r">>, <<"l", "i", "d", "e",
              "r", "a", "r">>, <<"n", "e", "g", "o", "c", "i", "a", "r">>>>
      [] name = <<"f", "u", "r", "t", "i", "v", "o">> ->
            <<<<"e", "s", "c", "o", "n", "d", "e", "r">>, <<"e", "s", "g",
              "u", "e", "i", "r", "a", "r">>, <<"r", "o", "u", "b", "a",
              "r">>, <<"e", "s", "p", "i", "o", "n", "a", "r">>>>
      [] OTHER -> << >>

\* _select_relevant_approach: approach_keywords
ApproachKeywords(name) ==
    CASE name = <<"f", "o", "r", "ç", "a">> ->
            <<<<"f", "o", "r", "ç", "a", "r">>, <<"q", "u", "e", "b", "r",
              "a", "r">>, <<"e", "m", "p", "u", "r", "r", "a", "r">>, <<"d",
              "e", "s", "t", "r", "u", "i", "r">>>>
      [] name = <<"a", "g", "i", "l", "i", "d", "a", "d", "e">> ->
            <<<<"e", "s", "q", "u", "i", "v", "a", "r">>, <<"c", "o", "r",
              "r", "e", "r">>, <<"s", "a", "l", "t", "a", "r">>, <<"r", "á",
              "p", "i", "d", "o">>>>
      [] name = <<"i", "n", "t", "e", "l", "e", "c", "t", "o">> ->
            <<<<"p", "e", "n", "s", "a", "r">>, <<"a", "n", "a", "l", "i",
              "s", "a", "r">>, <<"c", "a", "l", "c", "u", "l", "a", "r">>,
              <<"e", "s", "t", "u", "d", "a", "r">>>>
      [] name = <<"p", "e", "r", "c", "e", "p", "ç", "ã", "o">> ->
            <<<<"o", "b", "s", "e", "r", "v", "a", "r">>, <<"n", "o", "t",
              "a", "r">>, <<"p", "r", "o", "c", "u", "r", "a", "r">>, <<"v",
              "e", "r">>>>
      [] name = <<"v", "o", "n", "t", "a", "d", "e">> ->
            <<<<"r", "e", "s", "i", "s", "t", "i", "r">>, <<"c", "o", "n",
              "c", "e", "n", "t", "r", "a", "r">>, <<"f", "o", "c", "a",
              "r">>, <<"d", "e", "t", "e", "r", "m", "i", "n", "a", "r">>>>
      [] name = <<"p", "r", "e", "s", "e", "n", "ç", "a">> ->
            <<<<"i", "m", "p", "r", "e", "s", "s", "i", "o", "n", "a",
              "r">>, <<"l", "i", "d", "e", "r", "a", "r">>, <<"c", "o", "m",
              "a", "n", "d", "a", "r">>, <<"i", "n", "s", "p", "i", "r",
              "a", "r">>>>
      [] OTHER -> << >>

\* the action of the end-to-end scenario
ScenarioAction ==
    <<"E", "u", " ", "a", "t", "a", "c", "o", " ", "o", " ", "b",
      "a", "n", "d", "i", "d", "o", " ", "c", "o", "m", " ", "m", "i",
      "n", "h", "a", " ", "e", "s", "p", "a", "d", "a">>

\* the actions the rules harness submits
RulesInputs ==
    {<<"E", "u", " ", "a", "t", "a", "c", "o", " ", "o", " ", "b",
      "a", "n", "d", "i", "d", "o", " ", "c", "o", "m", " ", "m", "i",
      "n", "h", "a", " ", "e", "s", "p", "a", "d", "a">>, <<"V", "o",
      "u", " ", "a", "t", "a", "c", "a", "r", " ", "o", " ", "b",
      "a", "n", "d", "i", "d", "o">>, <<"T", "e", "n", "t", "a", "r",
      " ", "a", "l", "g", "o", " ", "i", "m", "p", "o", "s", "s", "í",
      "v", "e", "l">>, <<"E", "s", "c", "a", "l", "a", "r", " ", "o",
      " ", "m", "u", "r", "o", " ", "d", "i", "f", "í", "c", "i",
      "l">>, <<"A", "b", "r", "i", "r", " ", "a", " ", "p", "o", "r",
      "t", "a", " ", "s", "i", "m", "p", "l", "e", "s">>, <<"O", "l",
      "h", "a", "r", " ", "e", "m", " ", "v", "o", "l", "t", "a">>}

\* the archetypes of the harness character
HarnessArchetypes ==
    <<<<"c", "o", "r", "a", "j", "o", "s", "o">>, <<"F", "u", "r", "t", "i",
      "v", "o">>>>

\* the approaches of the harness character
HarnessApproaches ==
    <<<<"f", "o", "r", "ç", "a">>, <<"A", "s", "t", "u", "t", "o">>>>
\* _needs_dice_test(user_input)
NeedsDiceTest(user_input) == ContainsAny(LowerText(user_input), TestKeywords)

\* _determine_difficulty(user_input)
DetermineDifficulty(user_input) ==
    IF ContainsAny(LowerText(user_input), VeryHardWords) THEN 4
    ELSE IF ContainsAny(LowerText(user_input), HardWords) THEN 3
    ELSE IF ContainsAny(LowerText(user_input), ModerateWords) THEN 2
    ELSE IF ContainsAny(LowerText(user_input), EasyWords) THEN 1
    ELSE 2

\* the None an empty list of archetypes or approaches selects
NoChoice == << >>

\* the end of _select_relevant_archetype / _select_relevant_approach: the
\* first name whose keywords occur in the input (hits: their positions),
\* else the first name; None for an empty list
SelectRelevant(names, hits) ==
    IF names = << >> THEN NoChoice
    ELSE IF hits # {} THEN names[CHOOSE i \in hits : \A j \in hits : i <= j]
    ELSE names[1]

\* _select_relevant_archetype(user_input, character_data)
SelectRelevantArchetype(user_input, character_data) ==
    LET archetypes == character_data.archetypes
    IN  SelectRelevant(archetypes,
            {i \in DOMAIN archetypes :
                ContainsAny(LowerText(user_input),
                            ArchetypeKeywords(LowerText(archetypes[i])))})

\* _select_relevant_approach(user_input, character_data)
SelectRelevantApproach(user_input, character_data) ==
    LET approaches == character_data.approaches
    IN  SelectRelevant(approaches,
            {i \in DOMAIN approaches :
                ContainsAny(LowerText(user_input),
                            ApproachKeywords(LowerText(approaches[i])))})

\* the faces random.choice draws from
FateDie == <<-1, -1, 0, 0, 1, 1>>

\* every way the four draws can fall (positions in FateDie)
FaceRolls == [1..4 -> DOMAIN FateDie]

\* sum(random.choice([-1, -1, 0, 0, 1, 1]) for _ in range(4))
DiceRoll(faces) ==
    FateDie[faces[1]] + FateDie[faces[2]] + FateDie[faces[3]] + FateDie[faces[4]]

\* 'success = total_result >= difficulty' with the comparison made strict
DiceSuccessStrict(total_result, difficulty) == total_result > difficulty

\* success = total_result >= difficulty
DiceSuccess(total_result, difficulty) == total_result >= difficulty

\* _perform_dice_test(user_input, character_data), the draws being faces
PerformDiceTest(user_input, character_data, faces) ==
    LET difficulty == DetermineDifficulty(user_input)
        relevant_archetype == SelectRelevantArchetype(user_input, character_data)
        relevant_approach == SelectRelevantApproach(user_input, character_data)
        dice_roll == DiceRoll(faces)
        archetype_bonus == IF relevant_archetype # NoChoice THEN 2 ELSE 0
        approach_bonus == IF relevant_approach # NoChoice THEN 2 ELSE 0
        total_result == dice_roll + archetype_bonus + approach_bonus
    IN  [performed |-> TRUE, dice_roll |-> dice_roll,
         archetype_used |-> relevant_archetype, approach_used |-> relevant_approach,
         archetype_bonus |-> archetype_bonus, approach_bonus |-> approach_bonus,
         total_result |-> total_result, difficulty |-> difficulty,
         success |-> DiceSuccess(total_result, difficulty),
         margin |-> total_result - difficulty]

\* dice_result = None
NoDice ==
    [performed |-> FALSE, dice_roll |-> 0, archetype_used |-> NoChoice,
     approach_used |-> NoChoice, archetype_bonus |-> 0, approach_bonus |-> 0,
     total_result |-> 0, difficulty |-> 0, success |-> FALSE, margin |-> 0]

\* _analyze_rule_consequences(user_input, dice_result): success_level
SuccessLevel(dice_result) ==
    IF ~dice_result.performed THEN "none"
    ELSE IF dice_result.margin >= 3 THEN "critical_success"
    ELSE IF dice_result.margin >= 0 THEN "success"
    ELSE IF dice_result.margin >= -2 THEN "partial_success"
    ELSE "failure"

\* metadata=None of an error output
NoMetadata ==
    [present |-> FALSE, dice_test_performed |-> FALSE, dice_result |-> NoDice,
     success_level |-> "none"]

\* BaseSpecialistAgent._create_success_output
CreateSuccessOutput(agent_type, content, content_type, metadata) ==
    [kind |-> OutputKind, source_agent |-> agent_type, content_type |-> content_type,
     data |-> content, metadata |-> metadata, success |-> TRUE,
     error_message |-> None]

\* BaseSpecialistAgent._create_error_output
CreateErrorOutput(agent_type, error_message) ==
    [kind |-> OutputKind, source_agent |-> agent_type, content_type |-> "error",
     data |-> << >>, metadata |-> NoMetadata, success |-> FALSE,
     error_message |-> error_message]

\* RulesAgent.process_request(user_input, instructions, context); context
\* is [is_dict, character_data]; llm_ok: the LLM call returns text
RulesProcessRequest(user_input, context, llm_ok, faces) ==
    LET dice_test_needed == NeedsDiceTest(user_input)
        dice_result == IF dice_test_needed
                       THEN PerformDiceTest(user_input, context.character_data, faces)
                       ELSE NoDice
    IN  IF ~context.is_dict         \* context.get on a value that is no dict
        THEN CreateErrorOutput("rules", "Erro no agente de regras: AttributeError")
        ELSE IF ~llm_ok
        THEN CreateErrorOutput("rules", "Erro no agente de regras: llm_error")
        ELSE CreateSuccessOutput("rules", <<"llm_text">>, "rules_application",
                 [present |-> TRUE, dice_test_performed |-> dice_test_needed,
                  dice_result |-> dice_result,
                  success_level |-> SuccessLevel(dice_result)])

(***************************************************************************)
(* The rules harness: one call of the rules agent in each behaviour.       *)
(***************************************************************************)

\* the character sheets of the harness
CharacterSheets ==
    [archetypes : {<< >>, HarnessArchetypes}, approaches : {<< >>, HarnessApproaches}]

\* rules_agent._perform_dice_test(user_input, character_data)
DiceTestCall ==
    /\ call.op = "none"
    /\ \E user_input \in RulesInputs, sheet \in CharacterSheets, faces \in FaceRolls :
           call' = [op |-> "dice_test", user_input |-> user_input, sheet |-> sheet,
                    faces |-> faces,
                    out |-> PerformDiceTest(user_input, sheet, faces),
                    level |-> SuccessLevel(PerformDiceTest(user_input, sheet, faces))]
    /\ UNCHANGED <<cacheVars, serviceVars, pipeVars, appVars>>

\* await rules_agent.process_request(user_input, instructions, context)
RulesProcessCall ==
    /\ call.op = "none"
    /\ \E user_input \in RulesInputs, sheet \in CharacterSheets, is_dict \in BOOLEAN,
          llm_ok \in BOOLEAN, faces \in {[i \in 1..4 |-> f] : f \in DOMAIN FateDie} :
           call' = [op |-> "rules_process", user_input |-> user_input,
                    llm_ok |-> llm_ok,
                    context |-> [is_dict |-> is_dict, character_data |-> sheet],
                    out |-> RulesProcessRequest(user_input,
                               [is_dict |-> is_dict, character_data |-> sheet],
                               llm_ok, faces)]
    /\ UNCHANGED <<cacheVars, serviceVars, pipeVars, appVars>>

\* the end-to-end scenario: the action goes through the rules specialist
\* and through process_user_input
ScenarioRun ==
    /\ call.op = "none"
    /\ \E sheet \in CharacterSheets, env \in ServiceEnvs,
          faces \in {[i \in 1..4 |-> f] : f \in DOMAIN FateDie} :
           call' = [op |-> "scenario", env |-> env,
                    llm_ok |-> (env.llm.kind # "raise"),
                    rules |-> RulesProcessRequest(ScenarioAction,
                                 [is_dict |-> TRUE, character_data |-> sheet],
                                 env.llm.kind # "raise", faces),
                    pipeline |-> ProcessUserInput(ScenarioAction, "c1", env)]
    /\ UNCHANGED <<cacheVars, serviceVars, pipeVars, appVars>>

NextRules == DiceTestCall \/ RulesProcessCall \/ ScenarioRun

SpecRules == Init /\ [][NextRules]_vars

(***************************************************************************)
(* C17: the action "Eu ataco o bandido com minha espada", its LLM calls    *)
(* succeeding, gives a rules specialist output with dice_test_performed    *)
(* true, and process_user_input gives a state with a non-empty final       *)
(* narrative.                                                              *)
(***************************************************************************)
ScenarioRulesDiceTest ==
    (call.op = "scenario" /\ call.llm_ok)
        => /\ call.rules.success
           /\ call.rules.metadata.dice_test_performed
           /\ ~call.pipeline.raised
           /\ call.pipeline.value.final_narrative # << >>

(***************************************************************************)
(* C19: for every outcome of the four draws, dice_roll is in -4..4, each   *)
(* bonus is 0 or 2, total_result is their sum with dice_roll, difficulty   *)
(* is in 1..4, margin is total_result - difficulty, success holds exactly  *)
(* when margin >= 0, and the success level is critical_success or success  *)
(* exactly when success holds.                                             *)
(***************************************************************************)
DiceTestArithmetic ==
    call.op = "dice_test"
        => /\ call.out.dice_roll \in -4..4
           /\ call.out.archetype_bonus \in {0, 2}
           /\ call.out.approach_bonus \in {0, 2}
           /\ call.out.total_result =
                  call.out.dice_roll + call.out.archetype_bonus + call.out.approach_bonus
           /\ call.out.difficulty \in 1..4
           /\ call.out.margin = call.out.total_result - call.out.difficulty
           /\ call.out.success <=> (call.out.margin >= 0)
           /\ (call.level \in {"critical_success", "success"}) <=> call.out.success

\* a test that lands exactly on the difficulty: margin 0, a success
DiceTestBoundaryWitness ==
    /\ call.op = "dice_test"
    /\ call.out.margin = 0
    /\ call.out.success
    /\ call.out.archetype_bonus = 2
    /\ call.level = "success"

(***************************************************************************)
(* agents/specialists/time_agent.py: the campaign clock.                   *)
(***************************************************************************)

\* _calculate_time_passage: the dicts it can return, as unit and amount
TimePassages ==
    {[unit |-> "hours", amount |-> 8], [unit |-> "hours", amount |-> 2],
     [unit |-> "minutes", amount |-> 30], [unit |-> "minutes", amount |-> 10],
     [unit |-> "minutes", amount |-> 1], [unit |-> "minutes", amount |-> 15]}

\* _calculate_season(month)
CalculateSeason(month) ==
    IF month \in {12, 1, 2} THEN "winter"
    ELSE IF month \in {3, 4, 5} THEN "spring"
    ELSE IF month \in {6, 7, 8} THEN "summer"
    ELSE "autumn"

\* _calculate_moon_phase(day)
CalculateMoonPhase(day) ==
    LET lunar_day == day % 28
    IN  IF lunar_day < 7 THEN "new_moon"
        ELSE IF lunar_day < 14 THEN "waxing_gibbous"
        ELSE IF lunar_day < 21 THEN "full_moon"
        ELSE "waning_gibbous"

\* 'if new_time["minute"] >= 60' with the comparison made strict
NeedsHourCarryStrict(minute) == minute > 60

\* if new_time["minute"] >= 60
NeedsHourCarry(minute) == minute >= 60

\* _update_campaign_time(current_time, time_passage)
UpdateCampaignTime(current_time, time_passage) ==
    LET minute0 == IF time_passage.unit = "minutes"
                   THEN current_time.minute + time_passage.amount
                   ELSE current_time.minute
        carry == time_passage.unit = "minutes" /\ NeedsHourCarry(minute0)
        minute1 == IF carry THEN minute0 % 60 ELSE minute0
        hour0 == IF carry THEN current_time.hour + (minute0 \div 60)
                 ELSE current_time.hour
        hour1 == IF time_passage.unit = "hours" THEN hour0 + time_passage.amount
                 ELSE hour0
        hour2 == IF hour1 >= 24 THEN hour1 % 24 ELSE hour1
        day0 == IF hour1 >= 24 THEN current_time.day + (hour1 \div 24)
                ELSE current_time.day
        day1 == IF day0 > 30 THEN ((day0 - 1) % 30) + 1 ELSE day0
        month0 == IF day0 > 30 THEN current_time.month + ((day0 - 1) \div 30)
                  ELSE current_time.month
        month1 == IF month0 > 12 THEN ((month0 - 1) % 12) + 1 ELSE month0
        year1 == IF month0 > 12 THEN current_time.year + ((month0 - 1) \div 12)
                 ELSE current_time.year
    IN  [year |-> year1, month |-> month1, day |-> day1, hour |-> hour2,
         minute |-> minute1, season |-> CalculateSeason(month1),
         moon_phase |-> CalculateMoonPhase(day1)]

\* _check_temporal_events(current_time, new_time, context): the event types
CheckTemporalEvents(current_time, new_time) ==
    (IF current_time.day # new_time.day THEN <<"day_change">> ELSE << >>)
    \o (IF current_time.season # new_time.season THEN <<"season_change">> ELSE << >>)
    \o (IF current_time.moon_phase # new_time.moon_phase
        THEN <<"moon_phase_change">> ELSE << >>)
    \o (IF new_time.hour = 0 /\ current_time.hour # 0 THEN <<"midnight">>
        ELSE IF new_time.hour = 12 /\ current_time.hour # 12 THEN <<"noon">>
        ELSE << >>)

\* the year of the campaign clock (_get_campaign_time)
StartYear == 1423

\* the days and months the clock harness starts from; every hour and
\* minute is started from
StartDays == {1, 15, 28, 29, 30}
StartMonths == {1, 2, 7, 12}

\* the campaign times the clock harness starts from
StartTimes ==
    {[year |-> StartYear, month |-> mo, day |-> d, hour |-> h, minute |-> mi,
      season |-> CalculateSeason(mo), moon_phase |-> CalculateMoonPhase(d)] :
        mo \in StartMonths, d \in StartDays, h \in 0..23, mi \in 0..59}

\* minutes since the start of year 0 under 60-minute hours, 24-hour days,
\* 30-day months and 12-month years
MinuteCount(t) ==
    ((((t.year * 12 + (t.month - 1)) * 30 + (t.day - 1)) * 24 + t.hour) * 60) + t.minute

\* the minutes a time passage stands for
PassageMinutes(p) == IF p.unit = "hours" THEN p.amount * 60 ELSE p.amount

\* new_time = self._update_campaign_time(current_time, time_passage)
\* temporal_events = self._check_temporal_events(current_time, new_time, context)
UpdateTimeCall ==
    /\ call.op = "none"
    /\ \E current_time \in StartTimes, time_passage \in TimePassages :
           LET new_time == UpdateCampaignTime(current_time, time_passage)
           IN  call' = [op |-> "update_time", current_time |-> current_time,
                        time_passage |-> time_passage, new_time |-> new_time,
                        events |-> CheckTemporalEvents(current_time, new_time)]
    /\ UNCHANGED <<cacheVars, serviceVars, pipeVars, appVars>>

NextTime == UpdateTimeCall

SpecTime == Init /\ [][NextTime]_vars

\* the event types of call.events
EventTypes == {call.events[i] : i \in DOMAIN call.events}

(***************************************************************************)
(* C18: for every valid start time and every passage bucket the updated    *)
(* time stays within 0..59 minutes, 0..23 hours, days 1..30, months 1..12  *)
(* and equals the start plus the passage; 23:50 plus 15 minutes gives      *)
(* 00:05 of the next day, with a day_change and a midnight event.          *)
(***************************************************************************)
ClockAdvancesExactly ==
    call.op = "update_time"
        => /\ call.new_time.minute \in 0..59
           /\ call.new_time.hour \in 0..23
           /\ call.new_time.day \in 1..30
           /\ call.new_time.month \in 1..12
           /\ MinuteCount(call.new_time)
                  = MinuteCount(call.current_time) + PassageMinutes(call.time_passage)
           /\ (/\ call.current_time.hour = 23
               /\ call.current_time.minute = 50
               /\ call.time_passage = [unit |-> "minutes", amount |-> 15])
                  => /\ call.new_time.hour = 0
                     /\ call.new_time.minute = 5
                     /\ MinuteCount(call.new_time) \div (24 * 60)
                            = (MinuteCount(call.current_time) \div (24 * 60)) + 1
                     /\ {"day_change", "midnight"} \subseteq EventTypes

\* 23:50 on the last day of the year plus 15 minutes: 00:05 on the first
\* day of the next year, day_change and midnight emitted
MidnightRolloverWitness ==
    /\ call.op = "update_time"
    /\ call.current_time.hour = 23 /\ call.current_time.minute = 50
    /\ call.current_time.day = 30 /\ call.current_time.month = 12
    /\ call.time_passage = [unit |-> "minutes", amount |-> 15]
    /\ call.new_time.hour = 0 /\ call.new_time.minute = 5
    /\ call.new_time.day = 1 /\ call.new_time.month = 1
    /\ call.new_time.year = StartYear + 1
    /\ {"day_change", "midnight"} \subseteq EventTypes

(***************************************************************************)
(* The SpecialistOutput values the system constructs, site by site.        *)
(***************************************************************************)

\* the SpecialistOutput values one call of _specialists_node constructs,
\* in order: the outputs of the specialists it ran, and the generic error
\* output the except branch builds before its return
SpecialistsNodeOutputs(state, env) ==
    IF ~AttrOK(state)
    THEN <<SystemErrorOutput("AttributeError")>>    \* state.selected_agents
    ELSE LET selected == state.selected_agents
             tasks == TaskNames(selected)
             results == [i \in DOMAIN tasks |-> ExecuteSpecialist(tasks[i], env)]
         IN  IF \E i \in DOMAIN selected : selected[i].is_dict
             THEN <<SystemErrorOutput("TypeError")>>
             ELSE IF \E i \in DOMAIN results : ~AttrOK(results[i])
             THEN results \o <<SystemErrorOutput("AttributeError")>>
             ELSE results

\* MultiAgentService.test_individual_agent(agent_name, user_input, world_context)
TestIndividualAgent(agent_name, env) ==
    IF agent_name \notin Specialists
    THEN SpecialistOutput(agent_name, << >>, "error", FALSE, "Agente nao encontrado", << >>)
    ELSE LET r == CallSpecialist(agent_name, env)
         IN  IF r.raised
             THEN SpecialistOutput(agent_name, << >>, "error", FALSE, r.exc, << >>)
             ELSE r.value

\* the main text of an output: 'content' where the output is built with
\* the graph's keyword, 'data' where a base-agent factory builds it
ContentOf(output) ==
    IF "content" \in DOMAIN output THEN output.content ELSE output.data

\* self._create_success_output(...) / self._create_error_output(...)
FactoryCall ==
    /\ call.op = "none"
    /\ \E agent \in Specialists, ok \in BOOLEAN, text \in {<<"llm_text">>, << >>},
          user_input \in RulesInputs :
           call' = [op |-> "outputs", site |-> "base_agent", agent |-> agent,
                    user_input |-> user_input,
                    outs |-> <<IF ok
                               THEN CreateSuccessOutput(agent, text, "response", NoMetadata)
                               ELSE CreateErrorOutput(agent, "Erro no agente")>>]
    /\ UNCHANGED <<cacheVars, serviceVars, pipeVars, appVars>>

\* await graph._specialists_node(state): the outputs it constructs
NodeOutputsCall ==
    /\ call.op = "none"
    /\ \E i \in Inputs, c \in Contexts, env \in StageEnvs,
          selected \in SeqsUpTo(SelectedEntries, MaxSelected) :
           LET st == [InitialState(i, c) EXCEPT !.selected_agents = selected]
           IN  call' = [op |-> "outputs", site |-> "specialists_node", state |-> st,
                        env |-> env, outs |-> SpecialistsNodeOutputs(st, env)]
    /\ UNCHANGED <<cacheVars, serviceVars, pipeVars, appVars>>

\* await service.test_individual_agent(agent_name, user_input, world_context)
TestAgentCall ==
    /\ call.op = "none"
    /\ \E agent_name \in Specialists \cup {"dragon"}, env \in StageEnvs, i \in Inputs :
           call' = [op |-> "outputs", site |-> "test_individual_agent",
                    agent |-> agent_name, user_input |-> i, env |-> env,
                    outs |-> <<TestIndividualAgent(agent_name, env)>>]
    /\ UNCHANGED <<cacheVars, serviceVars, pipeVars, appVars>>

NextOutputs == FactoryCall \/ NodeOutputsCall \/ TestAgentCall

SpecOutputs == Init /\ [][NextOutputs]_vars

(***************************************************************************)
(* C20: every SpecialistOutput the system constructs (base-agent           *)
(* factories, specialists stage with its generic system-error output,      *)
(* single-agent test path) has, when success is false, empty content and   *)
(* a populated error_message, and when success is true, no error_message.  *)
(***************************************************************************)
OutputSuccessInvariant ==
    call.op = "outputs"
        => \A i \in DOMAIN call.outs :
               /\ ~call.outs[i].success
                      => /\ ContentOf(call.outs[i]) = << >>
                         /\ call.outs[i].error_message \notin {None, ""}
               /\ call.outs[i].success => call.outs[i].error_message = None

(***************************************************************************)
(* C21: process_user_input never raises: when a failure escapes the graph  *)
(* run it returns a state whose final_narrative explains the failure and   *)
(* whose execution metadata records it, with user_input and world_context  *)
(* as supplied.                                                            *)
(***************************************************************************)
ProcessUserInputNeverRaises ==
    pc = "after_graph"
        => /\ ~piOut.raised
           /\ gout.raised
                => /\ piOut.value.final_narrative # << >>
                   /\ "system_error" \in piOut.value.meta
                   /\ piOut.value.user_input = req.user_input
                   /\ piOut.value.world_context = req.world_context

(***************************************************************************)
(* The synthesizer harness: synthesize_outputs and the synthesizer node    *)
(* called on a state holding specialist outputs.                           *)
(***************************************************************************)

\* the specialist outputs the synthesizer harness puts in the state
SynthOutputs ==
    {SpecialistOutput(n, <<"content_of", n>>, "response", TRUE, None, << >>) :
        n \in {"world", "rules"}}
    \cup {SpecialistOutput("time", << >>, "error", FALSE, "Exception", << >>),
          SpecialistOutput("items", << >>, "response", TRUE, None, << >>)}

\* the synthesizer harness: only the synthesizer's LLM call varies
SynthEnvs ==
    {e \in Envs : e.llm.kind = "raise" /\ e.updating = {} /\ e.failing = {}}

\* await synthesizer.synthesize_outputs(state) and
\* await graph._synthesizer_node(state), on the same state
SynthCall ==
    /\ call.op = "none"
    /\ \E i \in Inputs, c \in Contexts, env \in SynthEnvs,
          outputs \in SeqsUpTo(SynthOutputs, MaxSelected) :
           LET st == [InitialState(i, c) EXCEPT !.specialist_outputs = outputs]
           IN  call' = [op |-> "synthesize", state |-> st, env |-> env,
                        out |-> SynthesizeOutputs(st, env),
                        node |-> SynthesizerNode(st, env)]
    /\ UNCHANGED <<cacheVars, serviceVars, pipeVars, appVars>>

NextSynth == SynthCall

SpecSynth == Init /\ [][NextSynth]_vars

(***************************************************************************)
(* C22: synthesize_outputs never raises: when its LLM call fails it        *)
(* returns the contents of the successful specialist outputs joined in     *)
(* order, or a fixed sentence when none succeeded; and the synthesizer     *)
(* node always returns a final narrative, its own join of the successful   *)
(* contents when the synthesizer fails.                                    *)
(***************************************************************************)
SynthesizerNeverRaises ==
    call.op = "synthesize"
        => /\ ~call.out.raised
           /\ call.env.synth = "raise"
                => call.out.value = FallbackSynthesis(call.state.specialist_outputs)
           /\ ~call.node.raised
           /\ call.node.value.final_narrative # << >>

\* the specialists whose process_request one call of _specialists_node
\* starts, in order: the coroutines are created in the loop over
\* state.selected_agents and started by asyncio.gather, which a loop that
\* raises never reaches
LaunchedSpecialists(state) ==
    IF ~AttrOK(state) THEN << >>                    \* state.selected_agents
    ELSE IF \E i \in DOMAIN state.selected_agents : state.selected_agents[i].is_dict
    THEN << >>                                      \* 'agent_name in self.specialists'
    ELSE TaskNames(state.selected_agents)

(***************************************************************************)
(* C23: given the routing decisions of a router stage, the specialists     *)
(* stage starts process_request exactly once for each decision whose agent *)
(* is in the specialist registry and yields one output of that specialist  *)
(* per such decision; decisions naming other agents start nothing.         *)
(***************************************************************************)
RoutedDecisionsLaunchOnce ==
    (/\ call.op = "specialists"
     /\ call.state.selected_agents # << >>
     /\ \A i \in DOMAIN call.state.selected_agents : call.state.selected_agents[i].is_dict)
        => LET expected == TaskNames(call.state.selected_agents)
           IN  /\ LaunchedSpecialists(call.state) = expected
               /\ ~call.out.raised
               /\ Len(call.out.value.specialist_outputs) = Len(expected)
               /\ \A i \in DOMAIN expected :
                      call.out.value.specialist_outputs[i].agent_type = expected[i]

\* _persist_related_data: the tables whose insert is attempted, in order
\* (PersistRelatedData gives the inserts that succeed)
PersistAttempts(campaign_json, env) ==
    LET worldDue == "mundo" \in campaign_json.keys
        charDue == "protagonista" \in campaign_json.keys
        rest == (IF charDue THEN <<"characters">> ELSE << >>) \o <<"execution_logs">>
    IN  IF ~env.admin THEN << >>                 \* get_supabase_admin_client() raises
        ELSE IF ~worldDue THEN rest
        ELSE IF ~env.world THEN <<"worlds">>     \* the outer except ends the method
        ELSE <<"worlds">> \o rest

(***************************************************************************)
(* C24: in _persist_related_data the world, character and execution-log    *)
(* writes are independent: whichever of them fails, the other two are      *)
(* still attempted.                                                        *)
(***************************************************************************)
RelatedWritesIndependent ==
    (/\ call.op = "create_campaign"
     /\ call.insert_ok
     /\ call.env.admin
     /\ call.env.llm = "json_pt")
        => PersistAttempts(ExtractJson(call.env.llm), call.env)
               = <<"worlds", "characters", "execution_logs">>

(***************************************************************************)
(* C28: when the LLM response cannot be parsed as JSON, create_campaign    *)
(* reports failure and inserts no row into campaigns, worlds, characters   *)
(* or execution_logs.                                                      *)
(***************************************************************************)
UnparsedResponseWritesNothing ==
    (call.op = "create_campaign" /\ call.env.llm = "garbage")
        => /\ call.out.result.success = "false"
           /\ call.out.writes = << >>

(***************************************************************************)
(* utils/cache.py under the event loop: the requests' cache calls and the  *)
(* background sweep are tasks of one loop.  A task runs until it awaits;   *)
(* no CacheManager method awaits inside its body and the sweep awaits only *)
(* asyncio.sleep, so each call and each pass of the sweep is one step.     *)
(***************************************************************************)

\* 'del self._cache[key]' raises KeyError when the key is not in the dict
DelFails(c, k) == k \notin DOMAIN c

\* the patterns the task harness passes to delete_pattern
HarnessPatterns == {<<"k1">>, <<"k", "*">>, <<"k1", "*">>, <<"*">>}

\* the keys of the task harness, as token sequences
TaskKeys == {<<"k1">>, <<"k", "2">>}

\* a request task: await cache.get(key)
TaskGet ==
    \E k \in TaskKeys :
        /\ cache' = CacheAfterGet(cache, k, now)
        /\ lastCache' = [op |-> "task_get", at |-> now,
                         failed |-> (k \in DOMAIN cache /\ IsExpired(cache[k], now)
                                     /\ DelFails(cache, k)),
                         before |-> << >>, after |-> << >>]
        /\ UNCHANGED <<now, serviceVars, pipeVars, call, appVars>>

\* a request task: await cache.set(key, value, expire_seconds)
TaskSet ==
    \E k \in TaskKeys, e \in 0..MaxExpire :
        /\ cache' = CacheAfterSet(cache, k, now, "v1", e)
        /\ lastCache' = [op |-> "task_set", at |-> now, failed |-> FALSE,
                         before |-> << >>, after |-> << >>]
        /\ UNCHANGED <<now, serviceVars, pipeVars, call, appVars>>

\* a request task: await cache.delete(key)
TaskDelete ==
    \E k \in TaskKeys :
        /\ cache' = (IF k \in DOMAIN cache THEN DictDel(cache, k) ELSE cache)
        /\ lastCache' = [op |-> "task_delete", at |-> now,
                         failed |-> (k \in DOMAIN cache /\ DelFails(cache, k)),
                         before |-> << >>, after |-> << >>]
        /\ UNCHANGED <<now, serviceVars, pipeVars, call, appVars>>

\* a request task: await cache.delete_pattern(pattern)
TaskDeletePattern ==
    \E p \in HarnessPatterns :
        /\ cache' = CacheAfterDeletePattern(cache, p)
        /\ lastCache' = [op |-> "task_delete_pattern", at |-> now,
                         failed |-> (\E k \in KeysToDelete(cache, p) : DelFails(cache, k)),
                         before |-> << >>, after |-> << >>]
        /\ UNCHANGED <<now, serviceVars, pipeVars, call, appVars>>

\* a request task: await cache.clear()
TaskClear ==
    /\ cache' = << >>
    /\ lastCache' = [op |-> "task_clear", at |-> now, failed |-> FALSE,
                     before |-> << >>, after |-> << >>]
    /\ UNCHANGED <<now, serviceVars, pipeVars, call, appVars>>

\* the sweep task wakes from asyncio.sleep(300) and makes one pass
TaskSweep ==
    /\ cache' = CacheAfterCleanup(cache, now)
    /\ lastCache' = [op |-> "task_sweep", at |-> now,
                     failed |-> (\E k \in DOMAIN cache :
                                    /\ IsExpired(cache[k], now)
                                    /\ DelFails(cache, k)),
                     before |-> cache, after |-> cache']
    /\ UNCHANGED <<now, serviceVars, pipeVars, call, appVars>>

NextCacheTasks ==
    \/ Tick \/ TaskGet \/ TaskSet \/ TaskDelete \/ TaskDeletePattern \/ TaskClear
    \/ TaskSweep

SpecCacheTasks == Init /\ [][NextCacheTasks]_vars

\* the operations of the task harness
TaskOps ==
    {"task_get", "task_set", "task_delete", "task_delete_pattern", "task_clear",
     "task_sweep"}

(***************************************************************************)
(* C25: in every interleaving of get, set, delete, delete_pattern and      *)
(* clear calls with the background sweep, no operation fails on a missing  *)
(* key, and each sweep removes exactly the entries whose expiry instant    *)
(* has passed: unexpired entries and entries without expiry stay, as they  *)
(* were.                                                                   *)
(***************************************************************************)
SweepRemovesExactlyExpired ==
    /\ lastCache.op \in TaskOps => ~lastCache.failed
    /\ lastCache.op = "task_sweep"
         => /\ DOMAIN lastCache.after
                   = {k \in DOMAIN lastCache.before :
                         \/ lastCache.before[k].expires_at = NoExpiry
                         \/ lastCache.at <= lastCache.before[k].expires_at}
            /\ \A k \in DOMAIN lastCache.after :
                   lastCache.after[k] = lastCache.before[k]

\* a sweep met an expired entry, an unexpired one with an expiry still to
\* come, and removed only the first
SweepMixedWitness ==
    /\ lastCache.op = "task_sweep"
    /\ \E k1 \in DOMAIN lastCache.before, k2 \in DOMAIN lastCache.before :
           /\ lastCache.before[k1].expires_at # NoExpiry
           /\ lastCache.at > lastCache.before[k1].expires_at
           /\ lastCache.before[k2].expires_at # NoExpiry
           /\ lastCache.at <= lastCache.before[k2].expires_at
           /\ k1 \notin DOMAIN lastCache.after
           /\ k2 \in DOMAIN lastCache.after

\* the narrative of a state reports a processing error: the prefix of
\* process_user_input's error state or of process_user_action's
ReportsError(state) ==
    /\ state.final_narrative # << >>
    /\ Head(state.final_narrative)
           \in {"Erro no processamento: ",
                "Desculpe, ocorreu um erro ao processar sua acao: "}

(***************************************************************************)
(* C26: process_user_action never writes to the cache a state whose        *)
(* narrative reports a processing error, and never serves such a state     *)
(* from the cache to a later request.                                      *)
(***************************************************************************)
ErrorStatesNeverCached ==
    /\ \A k \in DOMAIN cache : ~ReportsError(cache[k].value)
    /\ (svcCall.op = "process" /\ svcCall.from_cache) => ~ReportsError(svcCall.state)
    /\ (svcCall.op = "process" /\ ReportsError(svcCall.state))
           => /\ svcCall.graph_ran
              /\ GenerateCacheKey(svcCall.user_input, svcCall.world_context,
                                  svcCall.user_id) \notin DOMAIN cache

\* a request answered with an error state is repeated within the expiry
\* window: the graph is run again, the error state was not kept
ErrorNotServedAgainWitness ==
    /\ svcCall.op = "process"
    /\ svcCall.graph_ran
    /\ ReportsError(svcCall.state)
    /\ svcCall.prev.args = <<svcCall.user_input, svcCall.world_context, svcCall.user_id>>
    /\ ReportsError(svcCall.prev.state)
    /\ svcCall.at - svcCall.prev.at < CacheTTL

(***************************************************************************)
(* The cache key as the text Python builds: the tokens of GenerateCacheKey *)
(* written out character by character and concatenated.                    *)
(***************************************************************************)

\* a user id that itself contains the text the key puts after the user id
ForgedUser == "u1:context:7"

\* the characters of a token of the key; hash(...) is an int, printed as
\* decimal digits with an optional sign
Chars(token) ==
    CASE token = "multiagent:" -> <<"m", "u", "l", "t", "i", "a", "g", "e", "n", "t", ":">>
      [] token = ":user:" -> <<":", "u", "s", "e", "r", ":">>
      [] token = ":" -> <<":">>
      [] token = "context:" -> <<"c", "o", "n", "t", "e", "x", "t", ":">>
      [] token = "u1" -> <<"u", "1">>
      [] token = "u2" -> <<"u", "2">>
      [] token = ForgedUser -> <<"u", "1", ":", "c", "o", "n", "t", "e", "x", "t", ":", "7">>
      [] token = HashText("i1") -> <<"4", "1">>
      [] token = HashText("i2") -> <<"-", "7">>
      [] token = HashText("c1") -> <<"7">>
      [] OTHER -> <<token>>

\* the str the f-string of _generate_cache_key evaluates to
KeyText(user_input, world_context, user_id) ==
    LET key == GenerateCacheKey(user_input, world_context, user_id)
    IN  Flatten([j \in DOMAIN key |-> Chars(key[j])])

(***************************************************************************)
(* C27: a state cached for one user's request is never returned by         *)
(* process_user_action to a different user, even for the same input text   *)
(* and world context: a request is served only from the entry under its    *)
(* own key, and keys of different user ids differ.                         *)
(***************************************************************************)
CacheIsolatedByUser ==
    /\ \A i \in Inputs, c \in Contexts, u1 \in Users \cup {ForgedUser},
          u2 \in Users \cup {ForgedUser} :
           u1 # u2 => KeyText(i, c, u1) # KeyText(i, c, u2)
    /\ (svcCall.op = "process" /\ svcCall.from_cache)
           => \A <<i, c, u>> \in ServiceArgs :
                  GenerateCacheKey(i, c, u)
                        = GenerateCacheKey(svcCall.user_input, svcCall.world_context,
                                           svcCall.user_id)
                      => u = svcCall.user_id

\* user u2 asks what user u1 has in the cache, unexpired, for the same
\* input and context: the graph is run, u1's entry is not served
OtherUsersEntryNotServedWitness ==
    /\ svcCall.op = "process"
    /\ svcCall.user_id = "u2"
    /\ ~svcCall.from_cache
    /\ svcCall.graph_ran
    /\ CacheHit(cache, GenerateCacheKey(svcCall.user_input, svcCall.world_context, "u1"),
                svcCall.at)

(***************************************************************************)
(* Two identical process_user_action calls in flight on one event loop.    *)
(* A call runs from its cache lookup into process_user_input without       *)
(* suspending (CacheManager.get never awaits) and is suspended inside      *)
(* graph.ainvoke; the rest of the call is its second step.                 *)
(***************************************************************************)

\* the concurrent calls of the harness
Callers == {1, 2}

\* two identical calls arrive
ConcurrentArrive ==
    /\ call.op = "none"
    /\ \E <<i, c, u>> \in ServiceArgs, env \in ServiceEnvs :
           call' = [op |-> "concurrent", user_input |-> i, world_context |-> c,
                    user_id |-> u, env |-> env, arrived_at |-> now,
                    cached_on_arrival |-> CacheHit(cache, GenerateCacheKey(i, c, u), now),
                    pcs |-> [t \in Callers |-> "arrived"],
                    invocations |-> 0]
    /\ UNCHANGED <<cacheVars, serviceVars, pipeVars, appVars>>

\* a call looks its key up; on a miss it enters process_user_input, which
\* invokes the graph
ConcurrentLookup ==
    /\ call.op = "concurrent"
    /\ \E t \in Callers :
           /\ call.pcs[t] = "arrived"
           /\ LET key == GenerateCacheKey(call.user_input, call.world_context,
                                          call.user_id)
              IN  /\ cache' = CacheAfterGet(cache, key, now)
                  /\ call' = IF CacheHit(cache, key, now)
                             THEN [call EXCEPT !.pcs[t] = "served_from_cache"]
                             ELSE [call EXCEPT !.pcs[t] = "in_graph",
                                               !.invocations = @ + 1]
    /\ UNCHANGED <<now, lastCache, serviceVars, pipeVars, appVars>>

\* the graph run of a call ends; the call stores and returns the result, or
\* its except branch runs
ConcurrentFinish ==
    /\ call.op = "concurrent"
    /\ \E t \in Callers :
           /\ call.pcs[t] = "in_graph"
           /\ cache' = ServiceAfterGraph(
                           ProcessUserInput(call.user_input, call.world_context, call.env),
                           cache,
                           GenerateCacheKey(call.user_input, call.world_context,
                                            call.user_id),
                           now, call.user_input, call.world_context).cache
           /\ call' = [call EXCEPT !.pcs[t] = "returned"]
    /\ UNCHANGED <<now, lastCache, serviceVars, pipeVars, appVars>>

NextConcurrent == Tick \/ ConcurrentArrive \/ ConcurrentLookup \/ ConcurrentFinish

SpecConcurrent == Init /\ [][NextConcurrent]_vars

(***************************************************************************)
(* C29: identical process_user_action calls that arrive together while no  *)
(* entry for their key is cached invoke the agent graph at most once for   *)
(* that key within the expiry window.                                      *)
(***************************************************************************)
GraphInvokedOncePerKey ==
    (/\ call.op = "concurrent"
     /\ ~call.cached_on_arrival
     /\ now - call.arrived_at < CacheTTL)
        => call.invocations <= 1

(***************************************************************************)
(* The process-action endpoint's cache key at two request times.           *)
(***************************************************************************)

\* enrich_world_context(base_context, user_id, character_id, campaign_id)
\* at time t; world_ok: get_world_context returns.  The except branch
\* returns the context without a timestamp
EnrichWorldContext(base_context, campaign_id, world_ok, t) ==
    IF campaign_id # None /\ ~world_ok
    THEN [base |-> base_context, enrichment_error |-> "error"]
    ELSE EnrichedContext(base_context, t)

\* the key process_user_action computes for a process-action request
\* handled at time t
EndpointCacheKey(action, base_context, user_id, campaign_id, world_ok, t) ==
    GenerateCacheKey(action, EnrichWorldContext(base_context, campaign_id, world_ok, t),
                     user_id)

\* the same request made at two times
EndpointKeyCall ==
    /\ call.op = "none"
    /\ \E i \in Inputs, c \in Contexts, u \in Users, campaign_id \in {None, "camp1"},
          world_ok \in BOOLEAN, t1 \in 0..MaxClock, t2 \in 0..MaxClock :
           /\ t1 < t2
           /\ call' = [op |-> "endpoint_keys", action |-> i, world_context |-> c,
                       user_id |-> u, campaign_id |-> campaign_id,
                       world_ok |-> world_ok, t1 |-> t1, t2 |-> t2,
                       key1 |-> EndpointCacheKey(i, c, u, campaign_id, world_ok, t1),
                       key2 |-> EndpointCacheKey(i, c, u, campaign_id, world_ok, t2)]
    /\ UNCHANGED <<cacheVars, serviceVars, pipeVars, appVars>>

NextKeys == EndpointKeyCall

SpecKeys == Init /\ [][NextKeys]_vars

(***************************************************************************)
(* C30: at the process-action endpoint the cache key does not depend on    *)
(* when the request is made: the same user, action, world_context,         *)
(* character_id and campaign_id give the same key at two times within the  *)
(* expiry window.                                                          *)
(***************************************************************************)
EndpointKeyTimeIndependent ==
    (call.op = "endpoint_keys" /\ call.t2 - call.t1 < CacheTTL)
        => call.key1 = call.key2

====
